---- MODULE Spec2Model ----
(***************************************************************************)
(* gipsy-office: ingredient stock ledger and sale commit.                  *)
(*                                                                         *)
(* The repository holds two sale paths over one Firestore database:        *)
(*   - streamlit_app.py: collection "ingredients" (field stock_quantity),  *)
(*     adjust_stock / sell_product / undo_last_sale / register_delivery,   *)
(*     every store call a separate, non-transactional request;             *)
(*   - app/services/sales.py and app/ui_inventory.py: collection           *)
(*     "inventory" (field current), each handler one Firestore             *)
(*     transaction.                                                        *)
(* Both write sale documents to the collection "sales".                    *)
(*                                                                         *)
(* Quantities are whole units (grams, millilitres), as the seed data and   *)
(* the steps of the screens are; the rounding of Python floats on          *)
(* fractional quantities is outside the model.  A step of the model is one *)
(* request to the store, the local computation around it included.         *)
(* Browser sessions are the processes.                                     *)
(***************************************************************************)
EXTENDS Integers, Sequences, FiniteSets, TLC

\* ------------------------------------------------------------------ bounds
\* Largest initial quantity of an ingredient document.
MaxStock == 2
\* Number of handler calls in one behaviour.
MaxOps == 2
\* Number of items the sale screen resolves in one behaviour.
MaxResolved == 4
\* Number of items in a cart.
MaxCart == 1
\* Number of (stock, need) pairs put to the two shortage checks.
MaxChecked == 3
\* Number of carts the calculator sums in one behaviour.
MaxSummed == 5
\* Number of items in a cart given to the calculator.
MaxItems == 2

\* ------------------------------------------------------------ configuration
Procs == {"s1", "s2"}
Ingredients == {"beans", "milk"}

\* recipes/{productId}.items, as written by the first-setup block; "tea" has
\* no recipe document.
Products == {"espresso", "cappuccino", "tea"}
RecipeDocs ==
    [espresso   |-> << [ingredientId |-> "beans", qtyPer |-> 1] >>,
     cappuccino |-> << [ingredientId |-> "beans", qtyPer |-> 1],
                       [ingredientId |-> "milk",  qtyPer |-> 2] >>]

\* The empty document map, and maps over one or two ingredient ids.
EmptyMap == [i \in {} |-> 0]

\* Aggregated need of the carts a session submits to check_and_commit_sale:
\* an item without recipe (zero consumption), one espresso, one cappuccino,
\* two espressos with one milk add-on.
NeedMaps ==
    { EmptyMap,
      [i \in {"beans"} |-> 1],
      [i \in {"beans", "milk"} |-> IF i = "beans" THEN 1 ELSE 2],
      [i \in {"beans", "milk"} |-> IF i = "beans" THEN 2 ELSE 1] }

\* Manual corrections offered by the stock screens (plus and minus steps).
Deltas == {-1, 1}
\* Delivered quantities (the delivery form refuses qty <= 0).
DeliveryQtys == {1}

VARIABLES
    stock,          \* ingredients/{id}.stock_quantity; DOMAIN = existing docs
    inventory,      \* inventory/{id}.current;          DOMAIN = existing docs
    sales,          \* collection "sales" in write (timestamp) order
    deliveries,     \* collection "deliveries" in write order
    inventory_log,  \* collection "inventory_log" in write order
    pc,             \* per session: position inside the running handler
    local,          \* per session: the running handler's local variables
    ops,            \* number of handler calls started so far
    calls,          \* history: the records of the last two handler calls
    ui,             \* the sale screen of the app/ package: what it computed
    recipe_docs     \* recipes/{productId}.items of streamlit_app.py

vars == <<stock, inventory, sales, deliveries, inventory_log, pc, local, ops,
          calls, ui, recipe_docs>>

\* ------------------------------------------------------------------ helpers
\* float((snap.to_dict() or {}).get(field, 0)): a missing document reads as 0.
Have(ledger, i) == IF i \in DOMAIN ledger THEN ledger[i] ELSE 0

RECURSIVE RemoveId(_, _)
RemoveId(s, id) ==
    IF s = <<>> THEN <<>>
    ELSE IF Head(s).id = id THEN RemoveId(Tail(s), id)
    ELSE <<Head(s)>> \o RemoveId(Tail(s), id)

\* What the history keeps of the store at the start and the end of a call.
Snapshot == [stock |-> stock, inventory |-> inventory, sales |-> sales]
NoSnapshot == [stock |-> EmptyMap, inventory |-> EmptyMap, sales |-> <<>>]

NoSale == [id |-> -1, kind |-> "none", product_id |-> "", items |-> <<>>,
           inventory_delta |-> EmptyMap]

\* The sale screen before it has computed anything.
IdleUi ==
    [resolved |-> {},
     cart |-> [p \in Procs |-> <<>>],
     seen |-> [p \in Procs |-> EmptyMap],
     need |-> [p \in Procs |-> EmptyMap],
     preview |-> [p \in Procs |-> {}],
     did |-> {},
     checked |-> {},
     scaled |-> {},
     summed |-> {}]

IdleLocal ==
    [c |-> 0, op |-> "", product_id |-> "", items |-> <<>>, k |-> 0,
     ing |-> "", delta |-> 0, cur |-> 0, err |-> "none", target |-> NoSale,
     need |-> EmptyMap, snap |-> EmptyMap]

InFlight == {local[q].c : q \in {r \in Procs : pc[r] # "idle"}}

\* A new history record for call number ops + 1 by session p, and the overlap
\* marks on the recorded calls that are running while it starts.  The history
\* keeps the last two calls.
Begin(p, op, product_id, need, target) ==
    LET c == ops + 1
        marked == [d \in DOMAIN calls |->
                     IF calls[d].n \in InFlight
                     THEN [calls[d] EXCEPT !.ov = @ \cup {c}]
                     ELSE calls[d]]
        new == [n |-> c, p |-> p, op |-> op, product_id |-> product_id,
                need |-> need, pre |-> Snapshot, post |-> NoSnapshot,
                done |-> FALSE, res |-> "running", shortages |-> {},
                ov |-> InFlight, target |-> target, applied |-> 0,
                cart |-> <<>>, shown |-> {}, effect |-> EmptyMap]
    IN IF Len(marked) < 2 THEN Append(marked, new) ELSE <<marked[2], new>>

\* A history record closed with the handler's result and the store it leaves.
Closed(r, res, short) ==
    [r EXCEPT !.done = TRUE, !.res = res, !.shortages = short,
              !.post = [stock |-> stock', inventory |-> inventory',
                        sales |-> sales']]

\* The history with call c closed, if it still keeps call c.
Done(cs, c, res, short) ==
    [d \in DOMAIN cs |->
        IF cs[d].n = c THEN Closed(cs[d], res, short) ELSE cs[d]]

\* The history with one more credit counted for the undo call c.
Credited(cs, c) ==
    [d \in DOMAIN cs |->
        IF cs[d].n = c THEN [cs[d] EXCEPT !.applied = @ + 1] ELSE cs[d]]

\* The history with one more accepted update of adjust_stock counted for
\* call c: delta on ingredient ing.
Effected(cs, c, ing, delta) ==
    [d \in DOMAIN cs |->
        IF cs[d].n = c
        THEN [cs[d] EXCEPT !.effect =
                [i \in DOMAIN @ \cup {ing} |->
                    Have(@, i) + (IF i = ing THEN delta ELSE 0)]]
        ELSE cs[d]]

\* The session is back at the page; err is what adjust_stock returned when the
\* handler ends in adjust_stock, None otherwise.
Return(p, err) ==
    /\ pc' = [pc EXCEPT ![p] = "idle"]
    /\ local' = [local EXCEPT ![p] = [IdleLocal EXCEPT !.err = err]]

\* ------------------------------------------------- streamlit_app.py: reads
get_recipe(product_id) ==
    IF product_id \in DOMAIN recipe_docs THEN recipe_docs[product_id] ELSE <<>>

\* A variant of LastSale that orders ascending: the oldest sale document.
\* SellThenUndoRestores depends on the difference.
LastSaleOldest(docs) ==
    LET withTs == {n \in DOMAIN docs : docs[n].kind = "ts"}
    IN IF withTs = {} THEN NoSale
       ELSE docs[CHOOSE n \in withTs : \A m \in withTs : n <= m]

\* order_by("ts", DESCENDING).limit(1): the newest sale document that has a
\* "ts" field (documents without the ordering field are not returned).
LastSale(docs) ==
    LET withTs == {n \in DOMAIN docs : docs[n].kind = "ts"}
    IN IF withTs = {} THEN NoSale
       ELSE docs[CHOOSE n \in withTs : \A m \in withTs : m <= n]

\* ------------------------------------------- streamlit_app.py: adjust_stock
\* Two variants of AdjustRejects: one without the check, one that also
\* refuses the boundary.  NonNegativeAfterSales depends on the first
\* difference, AdjustRejectsBelowZeroOrMissing on the second.
AdjustRejectsNever(new_val) == FALSE

AdjustRejectsAtZero(new_val) == new_val <= 0

\* if new_val < 0: return "Nelzya uvesti ostatok v minus"
AdjustRejects(new_val) == new_val < 0

\* The value adjust_stock returns: the refusal, the store's NotFound for
\* update() on a missing document (caught by except), or None.
AdjustErr(ledger, ing, new_val) ==
    IF AdjustRejects(new_val) THEN "negative"
    ELSE IF ing \notin DOMAIN ledger THEN "not_found"
    ELSE "none"

\* ref.update({"stock_quantity": new_val})
AdjustWrite(ledger, ing, new_val) ==
    IF AdjustErr(ledger, ing, new_val) = "none"
    THEN [ledger EXCEPT ![ing] = new_val]
    ELSE ledger

\* Entry of adjust_stock(ing, delta) from a handler.
CallAdjust(l, ing, delta) == [l EXCEPT !.ing = ing, !.delta = delta]

\* snap = ref.get(); cur = float(... .get("stock_quantity", 0))
AdjRead(p) ==
    /\ pc[p] = "adj_read"
    /\ UNCHANGED <<ui, recipe_docs>>
    /\ local' = [local EXCEPT ![p].cur = Have(stock, local[p].ing)]
    /\ pc' = [pc EXCEPT ![p] = "adj_write"]
    /\ UNCHANGED <<stock, inventory, sales, deliveries, inventory_log, ops,
                   calls>>

\* The amount undo_last_sale credits for a recorded item.
UndoDelta(it) == it.qtyPer

\* The amount sell_product takes for a recipe item.
SellDelta(it) == 0 - it.qtyPer

\* new_val = cur + delta, the check and the update of adjust_stock, and the
\* caller's next line.
AdjWrite(p) ==
    LET l == local[p]
        new_val == l.cur + l.delta
        err == AdjustErr(stock, l.ing, new_val)
        more == l.k < Len(l.items)
        next == l.items[l.k + 1]
        cs == IF err = "none" THEN Effected(calls, l.c, l.ing, l.delta)
              ELSE calls
    IN
    /\ pc[p] = "adj_write"
    /\ UNCHANGED <<ui, recipe_docs>>
    /\ stock' = AdjustWrite(stock, l.ing, new_val)
    /\ UNCHANGED <<inventory, sales, deliveries, inventory_log, ops>>
    /\ CASE l.op \in {"adjust_stock", "register_delivery"} ->
              /\ calls' = Done(cs, l.c, err, {})
              /\ Return(p, err)
         [] l.op = "sell_product" /\ err # "none" ->
              \* if err: return err
              /\ calls' = Done(cs, l.c, err, {l.ing})
              /\ Return(p, err)
         [] l.op = "sell_product" /\ err = "none" /\ more ->
              /\ calls' = cs
              /\ pc' = [pc EXCEPT ![p] = "adj_read"]
              /\ local' = [local EXCEPT ![p] =
                    [CallAdjust(l, next.ingredientId, SellDelta(next))
                       EXCEPT !.k = l.k + 1, !.err = err]]
         [] l.op = "sell_product" /\ err = "none" /\ ~more ->
              /\ calls' = cs
              /\ pc' = [pc EXCEPT ![p] = "sale_write"]
              /\ local' = [local EXCEPT ![p].err = err]
         [] l.op = "undo_last_sale" ->
              \* the value adjust_stock returns is dropped
              /\ calls' = IF err = "none" THEN Credited(cs, l.c) ELSE cs
              /\ IF more
                 THEN /\ pc' = [pc EXCEPT ![p] = "adj_read"]
                      /\ local' = [local EXCEPT ![p] =
                            [CallAdjust(l, next.ingredientId, UndoDelta(next))
                               EXCEPT !.k = l.k + 1, !.err = err]]
                 ELSE /\ pc' = [pc EXCEPT ![p] = "undo_delete"]
                      /\ local' = [local EXCEPT ![p].err = err]

\* The stock screen: a plus/minus button or "Primenit" on a listed ingredient;
\* the handler's first request is the read of adjust_stock.
AdjustStock(p, ing, delta) ==
    /\ pc[p] = "idle"
    /\ UNCHANGED <<ui, recipe_docs>>
    /\ ops < MaxOps
    /\ ing \in DOMAIN stock
    /\ ops' = ops + 1
    /\ calls' = Begin(p, "adjust_stock", "", EmptyMap, -1)
    /\ pc' = [pc EXCEPT ![p] = "adj_write"]
    /\ local' = [local EXCEPT ![p] =
          [CallAdjust(IdleLocal, ing, delta)
             EXCEPT !.c = ops + 1, !.op = "adjust_stock",
                    !.cur = Have(stock, ing)]]
    /\ UNCHANGED <<stock, inventory, sales, deliveries, inventory_log>>

\* -------------------------------------------- streamlit_app.py: sell_product
\* What a recipe takes of each ingredient, as a map.
RECURSIVE RecipeNeed(_)
RecipeNeed(items) ==
    IF items = <<>> THEN EmptyMap
    ELSE LET rest == RecipeNeed(Tail(items))
             it == Head(items)
         IN [i \in DOMAIN rest \cup {it.ingredientId} |->
               Have(rest, i) + (IF i = it.ingredientId THEN it.qtyPer ELSE 0)]

\* recipe = get_recipe(product_id); if not recipe: return "Net recepta".
\* Recipes do not change, so the recipe read is taken together with the first
\* read of adjust_stock.
SellProduct(p, product_id) ==
    LET recipe == get_recipe(product_id)
        c == ops + 1
        begun == Begin(p, "sell_product", product_id, RecipeNeed(recipe), -1)
    IN
    /\ pc[p] = "idle"
    /\ UNCHANGED <<ui, recipe_docs>>
    /\ ops < MaxOps
    /\ ops' = c
    /\ UNCHANGED <<stock, inventory, sales, deliveries, inventory_log>>
    /\ IF recipe = <<>>
       THEN /\ calls' = Done(begun, c, "no_recipe", {})
            /\ Return(p, "none")
       ELSE /\ calls' = begun
            /\ pc' = [pc EXCEPT ![p] = "adj_write"]
            /\ local' = [local EXCEPT ![p] =
                  [CallAdjust(IdleLocal, recipe[1].ingredientId,
                              SellDelta(recipe[1]))
                     EXCEPT !.c = c, !.op = "sell_product",
                            !.product_id = product_id,
                            !.items = recipe, !.k = 1,
                            !.cur = Have(stock, recipe[1].ingredientId)]]

\* _sales_ref().document().set({product_id, ts, items})
SaleWrite(p) ==
    LET l == local[p] IN
    /\ pc[p] = "sale_write"
    /\ UNCHANGED <<ui, recipe_docs>>
    /\ sales' = Append(sales,
          [id |-> l.c, kind |-> "ts", product_id |-> l.product_id,
           items |-> l.items, inventory_delta |-> EmptyMap])
    /\ UNCHANGED <<stock, inventory, deliveries, inventory_log, ops>>
    /\ calls' = Done(calls, l.c, "ok", {})
    /\ Return(p, "none")

\* ------------------------------------------ streamlit_app.py: undo_last_sale
\* A variant of NoSaleFound without the test.  NoSaleToUndoChangesNothing
\* depends on the difference.
NoSaleFoundNever(last) == FALSE

\* if not last
NoSaleFound(last) == last = NoSale

\* A variant of UndoItems that takes the items from the recipe the product
\* has now.  UndoCreditsRecordedItems depends on the difference.
UndoItemsFromRecipe(last) == get_recipe(last.product_id)

\* sale = last.to_dict() or {}; for it in sale.get("items", [])
UndoItems(last) == last.items

\* last = next(q, None); if not last: return "Net prodazh dlya otmeny"
UndoLastSale(p) ==
    LET last == LastSale(sales)
        c == ops + 1
        items == UndoItems(last)
        begun == Begin(p, "undo_last_sale", "", EmptyMap, last.id)
    IN
    /\ pc[p] = "idle"
    /\ UNCHANGED <<ui, recipe_docs>>
    /\ ops < MaxOps
    /\ ops' = c
    /\ UNCHANGED <<stock, inventory, sales, deliveries, inventory_log>>
    /\ IF NoSaleFound(last)
       THEN /\ calls' = Done(begun, c, "no_sale", {})
            /\ Return(p, "none")
       ELSE IF last = NoSale
       THEN \* last.to_dict() on None raises; except: return str(e)
            /\ calls' = Done(begun, c, "exception", {})
            /\ Return(p, "none")
       ELSE IF items = <<>>
       THEN \* nothing to credit: the next request is the delete
            /\ calls' = begun
            /\ pc' = [pc EXCEPT ![p] = "undo_delete"]
            /\ local' = [local EXCEPT ![p] =
                  [IdleLocal EXCEPT !.c = c, !.op = "undo_last_sale",
                                    !.target = last]]
       ELSE /\ calls' = begun
            /\ pc' = [pc EXCEPT ![p] = "adj_read"]
            /\ local' = [local EXCEPT ![p] =
                  [CallAdjust(IdleLocal, items[1].ingredientId,
                              UndoDelta(items[1]))
                     EXCEPT !.c = c, !.op = "undo_last_sale",
                            !.items = items, !.k = 1, !.target = last]]

\* last.reference.delete(): deleting a document that is gone is no error.
UndoDelete(p) ==
    LET l == local[p] IN
    /\ pc[p] = "undo_delete"
    /\ UNCHANGED <<ui, recipe_docs>>
    /\ sales' = RemoveId(sales, l.target.id)
    /\ UNCHANGED <<stock, inventory, deliveries, inventory_log, ops>>
    /\ calls' = Done(calls, l.c, "ok", {})
    /\ Return(p, "none")

\* ------------------------------------ streamlit_app.py: the recipe editor
\* Quantities the editor saves for a row.
RecipeQtys == {2}

\* set_recipe(product_id, items): one set() of the recipe document.
set_recipe(docs, product_id, items) ==
    [d \in DOMAIN docs \cup {product_id} |->
        IF d = product_id THEN items ELSE docs[d]]

\* "Sohranit" on row idx of a product's recipe:
\* cur_recipe[idx]["qtyPer"] = float(new_qty); set_recipe(p["id"], cur_recipe)
SaveRecipeRow(p, product_id, idx, new_qty) ==
    LET cur_recipe == get_recipe(product_id) IN
    /\ pc[p] = "idle"
    /\ idx \in DOMAIN cur_recipe
    /\ cur_recipe[idx].qtyPer # new_qty
    /\ recipe_docs' = set_recipe(recipe_docs, product_id,
                                  [cur_recipe EXCEPT ![idx].qtyPer = new_qty])
    /\ UNCHANGED <<stock, inventory, sales, deliveries, inventory_log, pc,
                   local, ops, calls, ui>>

\* "Udalit" on row idx: new_list = [r for i, r in enumerate(cur_recipe)
\* if i != idx]; set_recipe(p["id"], new_list)
DeleteRecipeRow(p, product_id, idx) ==
    LET cur_recipe == get_recipe(product_id) IN
    /\ pc[p] = "idle"
    /\ idx \in DOMAIN cur_recipe
    /\ recipe_docs' = set_recipe(recipe_docs, product_id,
                                  SubSeq(cur_recipe, 1, idx - 1)
                                     \o SubSeq(cur_recipe, idx + 1,
                                                Len(cur_recipe)))
    /\ UNCHANGED <<stock, inventory, sales, deliveries, inventory_log, pc,
                   local, ops, calls, ui>>

\* --------------------------------------- streamlit_app.py: register_delivery
\* The delivery document is written first, then adjust_stock(id, qty).
RegisterDelivery(p, ing, qty) ==
    /\ pc[p] = "idle"
    /\ UNCHANGED <<ui, recipe_docs>>
    /\ ops < MaxOps
    /\ ops' = ops + 1
    /\ deliveries' = Append(deliveries, [ingredientId |-> ing, qty |-> qty])
    /\ calls' = Begin(p, "register_delivery", "", EmptyMap, -1)
    /\ pc' = [pc EXCEPT ![p] = "adj_read"]
    /\ local' = [local EXCEPT ![p] =
          [CallAdjust(IdleLocal, ing, qty)
             EXCEPT !.c = ops + 1, !.op = "register_delivery"]]
    /\ UNCHANGED <<stock, inventory, sales, inventory_log>>

\* ------------------------------- app/services/sales.py: check_and_commit_sale
\* inv_snaps = {k: r.get(transaction=transaction)}: the documents of the need,
\* read inside the transaction.
TxSnapshot(keys) ==
    [i \in keys |->
        [exists |-> i \in DOMAIN inventory, current |-> Have(inventory, i)]]

\* The shortage test of _tx for an ingredient that has a document.
TxShort(cur, qty_need) == cur < qty_need

\* The shortages list built by _tx.
TxShortages(need, snap) ==
    {[ingredient |-> i, need |-> need[i],
      have |-> IF snap[i].exists THEN snap[i].current ELSE 0] :
        i \in {j \in DOMAIN need :
                 \/ ~snap[j].exists
                 \/ TxShort(snap[j].current, need[j])}}

\* A variant of InventoryDelta that records the need unsigned.
\* SaleDeltaIsMinusNeed depends on the difference.
InventoryDeltaUnsigned(need) == [i \in DOMAIN need |-> need[i]]

\* "inventory_delta": {k: -float(v) for k, v in need.items()}
InventoryDelta(need) == [i \in DOMAIN need |-> 0 - need[i]]

\* new_val = cur - float(qty_need), for every ingredient of the need.
TxDecrement(ledger, need, snap) ==
    [i \in DOMAIN ledger |->
        IF i \in DOMAIN need THEN snap[i].current - need[i] ELSE ledger[i]]

\* Two variants of ReadsValid: one that never refuses a commit, one that
\* compares the reads with the "ingredients" collection.
\* SaleAttemptStateMachine depends on the first difference,
\* SellAttemptTerminates on the second.
ReadsValidAlways(snap) == TRUE

ReadsValidOtherLedger(snap) ==
    \A i \in DOMAIN snap :
        /\ snap[i].exists = (i \in DOMAIN stock)
        /\ snap[i].current = Have(stock, i)

\* The store commits a transaction only if no document it read has changed
\* since; otherwise the transaction function runs again.
ReadsValid(snap) ==
    \A i \in DOMAIN snap :
        /\ snap[i].exists = (i \in DOMAIN inventory)
        /\ snap[i].current = Have(inventory, i)

\* A non-empty cart with aggregated need `need` is submitted: the reads and
\* the shortage check of _tx.  A shortage raises RuntimeError, which rolls the
\* transaction back and leaves check_and_commit_sale.
TxBody(p, c, need, cs) ==
    LET snap == TxSnapshot(DOMAIN need)
        shortages == TxShortages(need, snap)
    IN
    /\ UNCHANGED <<stock, inventory, sales, deliveries, inventory_log>>
    /\ IF shortages # {}
       THEN /\ calls' = Done(cs, c, "shortage",
                             {s.ingredient : s \in shortages})
            /\ Return(p, "none")
       ELSE /\ calls' = cs
            /\ pc' = [pc EXCEPT ![p] = "tx_commit"]
            /\ local' = [local EXCEPT ![p] =
                  [IdleLocal EXCEPT !.c = c, !.op = "check_and_commit_sale",
                                    !.need = need, !.snap = snap]]

CheckAndCommitSale(p, need) ==
    /\ pc[p] = "idle"
    /\ UNCHANGED <<ui, recipe_docs>>
    /\ ops < MaxOps
    /\ ops' = ops + 1
    /\ TxBody(p, ops + 1, need,
              Begin(p, "check_and_commit_sale", "", need, -1))

\* The transaction function runs again after a failed commit.
TxRead(p) ==
    /\ pc[p] = "tx_read"
    /\ UNCHANGED <<ui, recipe_docs>>
    /\ ops' = ops
    /\ TxBody(p, local[p].c, local[p].need, calls)

\* A variant of SaleLogEntry that logs the need as it is, unsigned.
\* CommittedSaleLoggedOnce depends on the difference.
SaleLogEntryOfNeed(need, sale_id) ==
    [type |-> "sale", delta |-> need, sale_id |-> sale_id]

\* transaction.set(log_ref, {"type": "sale",
\*     "delta": {k: -float(v) for k, v in need.items()},
\*     "meta": {"sale_id": sale_ref.id}})
SaleLogEntry(need, sale_id) ==
    [type |-> "sale", delta |-> InventoryDelta(need), sale_id |-> sale_id]

\* Commit: the updates of "current", the sale document and the log document
\* become visible together.
TxCommit(p) ==
    LET l == local[p] IN
    /\ pc[p] = "tx_commit"
    \* if ok: st.session_state.cart = []
    /\ UNCHANGED recipe_docs
    /\ ui' = [ui EXCEPT !.cart[p] = <<>>]
    /\ ReadsValid(l.snap)
    /\ inventory' = TxDecrement(inventory, l.need, l.snap)
    /\ sales' = Append(sales,
          [id |-> l.c, kind |-> "created_at", product_id |-> "",
           items |-> <<>>, inventory_delta |-> InventoryDelta(l.need)])
    /\ inventory_log' = Append(inventory_log, SaleLogEntry(l.need, l.c))
    /\ UNCHANGED <<stock, deliveries, ops>>
    /\ calls' = Done(calls, l.c, "ok", {})
    /\ Return(p, "none")

\* A read document changed before commit: the transaction function re-runs.
TxRetry(p) ==
    /\ pc[p] = "tx_commit"
    /\ UNCHANGED <<ui, recipe_docs>>
    /\ ~ReadsValid(local[p].snap)
    /\ pc' = [pc EXCEPT ![p] = "tx_read"]
    /\ local' = [local EXCEPT ![p].snap = EmptyMap]
    /\ UNCHANGED <<stock, inventory, sales, deliveries, inventory_log, ops,
                   calls>>

\* What the caller of a sell handler receives for a result of the history:
\* how it arrives and the keys it carries.  check_and_commit_sale returns
\* {"ok": True, "total_amount": ...} and lets the RuntimeError of _tx, whose
\* argument is the text of jsonify_shortages, leave the call; sell_product
\* returns None or a message.
SellResult(op, res) ==
    CASE op = "check_and_commit_sale" /\ res = "ok" ->
            [via |-> "return", carries |-> {"ok", "total_amount"}]
      [] op = "check_and_commit_sale" /\ res # "ok" ->
            [via |-> "raise", carries |-> {"message"}]
      [] op = "sell_product" /\ res = "ok" ->
            [via |-> "return", carries |-> {}]
      [] OTHER ->
            [via |-> "return", carries |-> {"message"}]

\* ------------------------------------ app/ui_inventory.py: render_inventory
\* The body of _tx: the read, the buffered update, and the log document,
\* which collection.add() writes at once, outside the transaction.
MtxBody(p, c, ing, delta) ==
    /\ local' = [local EXCEPT ![p] =
          [IdleLocal EXCEPT !.c = c, !.op = "manual_adjust", !.ing = ing,
                            !.delta = delta, !.cur = Have(inventory, ing),
                            !.snap = TxSnapshot({ing})]]
    /\ inventory_log' = Append(inventory_log,
          [type |-> "adjust", delta |-> [i \in {ing} |-> delta],
           sale_id |-> 0])
    /\ pc' = [pc EXCEPT ![p] = "mtx_commit"]
    /\ UNCHANGED <<stock, inventory, sales, deliveries>>

\* "Primenit" on the inventory screen, for a listed document and a delta.
ManualAdjust(p, ing, delta) ==
    /\ pc[p] = "idle"
    /\ UNCHANGED <<ui, recipe_docs>>
    /\ ops < MaxOps
    /\ ing \in DOMAIN inventory
    /\ ops' = ops + 1
    /\ calls' = Begin(p, "manual_adjust", "", EmptyMap, -1)
    /\ MtxBody(p, ops + 1, ing, delta)

\* The transaction function runs again after a failed commit.
MtxRead(p) ==
    /\ pc[p] = "mtx_read"
    /\ UNCHANGED <<ui, recipe_docs>>
    /\ UNCHANGED <<ops, calls>>
    /\ MtxBody(p, local[p].c, local[p].ing, local[p].delta)

\* tx.update(ref, {"current": cur + float(delta)})
ManualNewValue(cur, delta) == cur + delta

MtxCommit(p) ==
    LET l == local[p] IN
    /\ pc[p] = "mtx_commit"
    /\ UNCHANGED <<ui, recipe_docs>>
    /\ ReadsValid(l.snap)
    /\ inventory' = [inventory EXCEPT ![l.ing] = ManualNewValue(l.cur, l.delta)]
    /\ UNCHANGED <<stock, sales, deliveries, inventory_log, ops>>
    /\ calls' = Done(calls, l.c, "ok", {})
    /\ Return(p, "none")

MtxRetry(p) ==
    /\ pc[p] = "mtx_commit"
    /\ UNCHANGED <<ui, recipe_docs>>
    /\ ~ReadsValid(local[p].snap)
    /\ pc' = [pc EXCEPT ![p] = "mtx_read"]
    /\ UNCHANGED <<stock, inventory, sales, deliveries, inventory_log, ops,
                   calls, local>>

\* ------------------------------------------------- app/logic/calc.py: data
\* Quantities the calculator works with are exact fractions [n, d], d > 0, in
\* lowest terms (volume_ml / base_ml need not be whole).
RECURSIVE GCD(_, _)
GCD(a, b) == IF b = 0 THEN a ELSE GCD(b, a % b)

Abs(x) == IF x < 0 THEN 0 - x ELSE x

Rat(n, d) ==
    LET g == GCD(Abs(n), Abs(d))
        sgn == IF d < 0 THEN 0 - 1 ELSE 1
    IN [n |-> (sgn * n) \div g, d |-> (sgn * d) \div g]

RatOfInt(x) == [n |-> x, d |-> 1]
RatAdd(x, y) == Rat(x.n * y.d + y.n * x.d, x.d * y.d)
RatSub(x, y) == Rat(x.n * y.d - y.n * x.d, x.d * y.d)
RatMul(x, y) == Rat(x.n * y.n, x.d * y.d)
RatLess(x, y) == x.n * y.d < y.n * x.d

\* A variant of Get that always gives the default, so that an entry is
\* assigned rather than added to.  RepeatedIdsAreSummed depends on the
\* difference.
GetDefault(m, key) == RatOfInt(0)

\* out.get(iid, 0.0)
Get(m, key) == IF key \in DOMAIN m THEN m[key] ELSE RatOfInt(0)

\* recipes/{id}: the cappuccino recipe of the worked example (base volume
\* 200 ml, beans 18, milk 150).  "tea_base" has no document.
Recipes ==
    [cappuccino_base |->
        [base_volume_ml |-> 200,
         ingredients |-> << [ingredient_id |-> "beans", qty |-> 18],
                            [ingredient_id |-> "milk", qty |-> 150] >>]]

\* products/{id}: recipe_ref is a path, here as its segments; add-ons carry
\* fixed ingredient quantities.  "water" has no recipe_ref.
Catalog ==
    [cappuccino |->
        [recipe_ref |-> <<"recipes", "cappuccino_base">>,
         addons |-> << [id |-> "shot", ingredients |-> [beans |-> 9]],
                       [id |-> "syrup", ingredients |-> [syrup |-> 20]] >>],
     tea |->
        [recipe_ref |-> <<"recipes", "tea_base">>,
         addons |-> << [id |-> "syrup", ingredients |-> [syrup |-> 20]] >>],
     water |->
        [addons |-> <<>>]]

\* The volumes and add-on selections the sale screen can submit.
Volumes == {100, 200, 400}
AddonLists == { <<>>, <<"shot">>, <<"syrup">>, <<"shot", "syrup">> }

\* ------------------------------- app/logic/calc.py: compute_base_consumption
\* A variant of ScaleFactor with floor division.  BaseScalesWithVolume depends
\* on the difference.
ScaleFactorFloor(volume_ml, base_ml) == RatOfInt(volume_ml \div base_ml)

\* A variant of ScaleFactor with the quotient upside down.  WorkedExample
\* depends on the difference.
ScaleFactorInverse(volume_ml, base_ml) == Rat(base_ml, volume_ml)

\* k = volume_ml / base_ml
ScaleFactor(volume_ml, base_ml) == Rat(volume_ml, base_ml)

\* A variant of BaseMl without the "or 200.0": a stored zero is used as given.
\* ScaleDivisorIsPositive depends on the difference.
BaseMlAsStored(recipe) ==
    IF "base_volume_ml" \in DOMAIN recipe
    THEN recipe.base_volume_ml
    ELSE 200

\* base_ml = float(recipe.get("base_volume_ml", 200)) or 200.0
BaseMl(recipe) ==
    IF "base_volume_ml" \in DOMAIN recipe /\ recipe.base_volume_ml # 0
    THEN recipe.base_volume_ml
    ELSE 200

\* for item in recipe.get("ingredients", []):
\*     out[iid] = out.get(iid, 0.0) + qty * k
RECURSIVE BaseLoop(_, _, _)
BaseLoop(out, items, k) ==
    IF items = <<>> THEN out
    ELSE LET iid == Head(items).ingredient_id
             val == RatAdd(Get(out, iid), RatMul(RatOfInt(Head(items).qty), k))
         IN BaseLoop([i \in DOMAIN out \cup {iid} |->
                        IF i = iid THEN val ELSE out[i]],
                     Tail(items), k)

compute_base_consumption(recipe, volume_ml) ==
    LET k == ScaleFactor(volume_ml, BaseMl(recipe))
        items == IF "ingredients" \in DOMAIN recipe
                 THEN recipe.ingredients ELSE <<>>
    IN BaseLoop(EmptyMap, items, k)

\* Recipe documents as the recipe editor of the collaborator can leave them:
\* no base volume, a base volume of zero, and positive base volumes below,
\* at and above 200.
ScaledRecipes ==
    LET ingredients == << [ingredient_id |-> "beans", qty |-> 18],
                          [ingredient_id |-> "milk", qty |-> 150] >>
    IN {[ingredients |-> ingredients]}
       \cup {[base_volume_ml |-> b, ingredients |-> ingredients] :
                b \in {0, 100, 200, 400}}

\* The sale screen scales one recipe to one volume: the divisor and the
\* factor of lines 5-6 and the map returned.
ScaleRecipe(recipe, volume_ml) ==
    LET base_ml == BaseMl(recipe)
        entry == [recipe |-> recipe, volume_ml |-> volume_ml,
                  base_ml |-> base_ml,
                  k |-> ScaleFactor(volume_ml, base_ml),
                  out |-> compute_base_consumption(recipe, volume_ml)]
    IN
    /\ Cardinality(ui.scaled) < MaxResolved
    /\ entry \notin ui.scaled
    /\ UNCHANGED recipe_docs
    /\ ui' = [ui EXCEPT !.scaled = @ \cup {entry}]
    /\ UNCHANGED <<stock, inventory, sales, deliveries, inventory_log, pc,
                   local, ops, calls>>

\* ----------------------------------------------- app/logic/calc.py: sum_maps
sum_maps(a, b) ==
    [i \in DOMAIN a \cup DOMAIN b |->
        IF i \in DOMAIN b THEN RatAdd(Get(a, i), b[i]) ELSE a[i]]

\* ------------------------------- app/logic/calc.py: consumption_for_item
\* rkey = product["recipe_ref"].split("/")[-1], or None ("" here)
RecipeKey(product) ==
    IF "recipe_ref" \in DOMAIN product /\ product.recipe_ref # <<>>
    THEN product.recipe_ref[Len(product.recipe_ref)]
    ELSE ""

\* A variant of AddonsWithId that looks the id up on every product of the
\* catalogue.  UnknownAddonsAreIgnored depends on the difference.
AddonsWithIdAnywhere(product, add_id) ==
    UNION {{Catalog[q].addons[j] :
              j \in {m \in DOMAIN Catalog[q].addons :
                       Catalog[q].addons[m].id = add_id}} :
           q \in DOMAIN Catalog}

\* addons.get(add_id): the add-on of the product with that id, if any.
AddonsWithId(product, add_id) ==
    LET ads == IF "addons" \in DOMAIN product THEN product.addons ELSE <<>>
    IN {ads[j] : j \in {m \in DOMAIN ads : ads[m].id = add_id}}

\* A variant of AddAddon that assigns instead of adding.
\* AddonPartIgnoresVolume depends on the difference.
AddAddonOverwrite(total, ad) ==
    [i \in DOMAIN total \cup DOMAIN ad.ingredients |->
        IF i \in DOMAIN ad.ingredients
        THEN RatOfInt(ad.ingredients[i])
        ELSE total[i]]

\* for iid, q in ad["ingredients"].items():
\*     total[iid] = total.get(iid, 0.0) + float(q)
AddAddon(total, ad) ==
    [i \in DOMAIN total \cup DOMAIN ad.ingredients |->
        IF i \in DOMAIN ad.ingredients
        THEN RatAdd(Get(total, i), RatOfInt(ad.ingredients[i]))
        ELSE total[i]]

\* for add_id in addon_ids: an id the product does not offer is skipped.
RECURSIVE AddonLoop(_, _, _)
AddonLoop(total, product, addon_ids) ==
    IF addon_ids = <<>> THEN total
    ELSE LET found == AddonsWithId(product, Head(addon_ids))
         IN AddonLoop(IF found = {} THEN total
                      ELSE AddAddon(total, CHOOSE ad \in found : TRUE),
                      product, Tail(addon_ids))

consumption_for_item(product, volume_ml, addon_ids, recipes) ==
    LET rkey == RecipeKey(product)
        base == IF rkey # "" /\ rkey \in DOMAIN recipes
                THEN sum_maps(EmptyMap,
                              compute_base_consumption(recipes[rkey],
                                                       volume_ml))
                ELSE EmptyMap
    IN AddonLoop(base, product, addon_ids)

\* The sale screen resolves one item: product, volume, selected add-ons.
ResolveItem(product_id, volume_ml, addon_ids) ==
    LET item == [product_id |-> product_id, volume_ml |-> volume_ml,
                 addons |-> addon_ids,
                 cons |-> consumption_for_item(Catalog[product_id], volume_ml,
                                               addon_ids, Recipes)]
    IN
    /\ Cardinality(ui.resolved) < MaxResolved
    /\ item \notin ui.resolved
    /\ UNCHANGED recipe_docs
    /\ ui' = [ui EXCEPT !.resolved = @ \cup {item}]
    /\ UNCHANGED <<stock, inventory, sales, deliveries, inventory_log, pc,
                   local, ops, calls>>

\* ------------------------------- app/logic/calc.py: total_cart_consumption
\* for item in cart: an item whose product is unknown is skipped;
\*     need[k] = need.get(k, 0.0) + v * int(item["qty"])
RECURSIVE CartLoop(_, _, _, _)
CartLoop(need, cart, products, recipes) ==
    IF cart = <<>> THEN need
    ELSE LET item == Head(cart)
             cons == consumption_for_item(products[item.product_id],
                                          item.volume_ml, item.addons, recipes)
             added == [i \in DOMAIN need \cup DOMAIN cons |->
                         IF i \in DOMAIN cons
                         THEN RatAdd(Get(need, i),
                                     RatMul(cons[i], RatOfInt(item.qty)))
                         ELSE need[i]]
         IN CartLoop(IF item.product_id \in DOMAIN products
                     THEN added ELSE need,
                     Tail(cart), products, recipes)

\* A variant of total_cart_consumption that keeps adding into the map of an
\* earlier run instead of a new one.  PreviewIsReadOnlyAndRepeatable depends
\* on the difference.
total_cart_consumption_kept(cart, products, recipes) ==
    LET earlier == {ui.need[p] : p \in Procs} \ {EmptyMap}
    IN CartLoop(IF earlier = {} THEN EmptyMap
                ELSE CHOOSE need \in earlier : TRUE,
                cart, products, recipes)

\* A variant of total_cart_consumption that gives up the whole cart (an empty
\* need) when one of its products is not in the catalogue.
\* UnknownProductIsSkipped depends on the difference.
total_cart_consumption_strict(cart, products, recipes) ==
    IF \E k \in DOMAIN cart : cart[k].product_id \notin DOMAIN products
    THEN EmptyMap
    ELSE CartLoop(EmptyMap, cart, products, recipes)

\* need: Dict[str, float] = {}; for item in cart: ...; return need
total_cart_consumption(cart, products, recipes) ==
    CartLoop(EmptyMap, cart, products, recipes)

\* A catalogue in which ingredient ids repeat: the recipe lists beans twice
\* and the add-on "shot" takes beans too.
SumRecipes ==
    [doppio_base |->
        [base_volume_ml |-> 200,
         ingredients |-> << [ingredient_id |-> "beans", qty |-> 18],
                            [ingredient_id |-> "milk", qty |-> 150],
                            [ingredient_id |-> "beans", qty |-> 2] >>]]

SumCatalog ==
    [doppio |->
        [recipe_ref |-> <<"recipes", "doppio_base">>,
         addons |-> << [id |-> "shot", ingredients |-> [beans |-> 9]] >>]]

\* Cart items over that catalogue; the product "ghost" is not in it (it was
\* taken out of the catalogue after the item was put into the cart).
SumItems ==
    { [product_id |-> "doppio", volume_ml |-> 400, qty |-> 2,
       addons |-> <<"shot">>],
      [product_id |-> "ghost", volume_ml |-> 200, qty |-> 1,
       addons |-> <<>>] }

SumCarts == UNION {[1..n -> SumItems] : n \in 0..MaxItems}

\* The page computes the need of one cart: need = total_cart_consumption(
\* cart, products, recipes).
SumCart(cart) ==
    LET entry == [cart |-> cart,
                  need |-> total_cart_consumption(cart, SumCatalog,
                                                  SumRecipes)]
    IN
    /\ Cardinality(ui.summed) < MaxSummed
    /\ entry \notin ui.summed
    /\ UNCHANGED recipe_docs
    /\ ui' = [ui EXCEPT !.summed = @ \cup {entry}]
    /\ UNCHANGED <<stock, inventory, sales, deliveries, inventory_log, pc,
                   local, ops, calls>>

\* ------------------------------------- app/logic/calc.py: find_shortages
\* have + 1e-9 < req, on exact fractions: req - have > 1/10^9.
LessByEpsilon(have, req) ==
    LET diff == RatSub(req, have)
    IN diff.n > 0 /\ diff.d \div diff.n < 1000000000

find_shortages(need, inv) ==
    {[ingredient_id |-> i, need |-> need[i], have |-> RatOfInt(Have(inv, i)),
      deficit |-> RatSub(need[i], RatOfInt(Have(inv, i)))] :
        i \in {j \in DOMAIN need :
                 LessByEpsilon(RatOfInt(Have(inv, j)), need[j])}}

\* ------------------------------ the two shortage checks on the same input
\* The check of _tx with the need as the calculator gives it, a fraction:
\* if not snap.exists: shortage with have 0.0; if cur < qty_need: shortage.
TxShortagesExact(need, inv) ==
    {[ingredient |-> i, need |-> need[i], have |-> RatOfInt(Have(inv, i))] :
        i \in {j \in DOMAIN need :
                 \/ j \notin DOMAIN inv
                 \/ RatLess(RatOfInt(inv[j]), need[j])}}

\* Stocks and needs around the boundary: the need equal to the stock, above
\* it by half of 1e-9, by 1e-9, by twice 1e-9, and by a whole unit.
CheckedHaves == {0, 1}
CheckedNeeds ==
    { RatOfInt(1), Rat(2000000001, 2000000000), Rat(1000000001, 1000000000),
      Rat(1000000002, 1000000000), RatOfInt(2) }

\* One stock and one need of beans are put to the preview's check and to
\* the check of the transaction.
CheckShortage(have, req) ==
    LET need == [i \in {"beans"} |-> req]
        inv == [i \in {"beans"} |-> have]
        entry == [have |-> have, need |-> req,
                  preview |-> find_shortages(need, inv),
                  commit |-> TxShortagesExact(need, inv)]
    IN
    /\ Cardinality(ui.checked) < MaxChecked
    /\ entry \notin ui.checked
    /\ UNCHANGED recipe_docs
    /\ ui' = [ui EXCEPT !.checked = @ \cup {entry}]
    /\ UNCHANGED <<stock, inventory, sales, deliveries, inventory_log, pc,
                   local, ops, calls>>

\* ------------------------------------------- app/ui_sale.py: render_sale
\* The items the sale screen can put into the cart.
CartItems ==
    { [product_id |-> "cappuccino", volume_ml |-> 400, qty |-> 1,
       addons |-> <<>>],
      [product_id |-> "cappuccino", volume_ml |-> 100, qty |-> 2,
       addons |-> <<"shot">>] }

\* The sale screen of session p drawn for `cart` after the button `what`:
\* the inventory fetched at the top of the run, the need of the cart and the
\* preview of the shortages.
Drawn(p, cart, what) ==
    LET need == total_cart_consumption(cart, Catalog, Recipes)
    IN [ui EXCEPT !.cart[p] = cart,
                  !.seen[p] = inventory,
                  !.need[p] = need,
                  !.preview[p] = find_shortages(need, inventory),
                  !.did = @ \cup {what}]

\* A variant of AddToCart that reserves the item's ingredients when the item
\* is put into the cart.  CartEditsLeaveLedger depends on the difference.
AddToCartReserving(p, item) ==
    LET take == total_cart_consumption(<<item>>, Catalog, Recipes)
    IN
    /\ pc[p] = "idle"
    /\ Len(ui.cart[p]) < MaxCart
    /\ UNCHANGED recipe_docs
    /\ ui' = Drawn(p, Append(ui.cart[p], item), "add")
    /\ inventory' = [i \in DOMAIN inventory |->
                        IF i \in DOMAIN take
                        THEN inventory[i] - take[i].n \div take[i].d
                        ELSE inventory[i]]
    /\ UNCHANGED <<stock, sales, deliveries, inventory_log, pc, local, ops,
                   calls>>

\* "V korzinu": the item is appended and the page is drawn again, with the
\* inventory fetched at the top of the run, the need of the cart and the
\* preview of the shortages.
AddToCart(p, item) ==
    LET cart == Append(ui.cart[p], item)
        need == total_cart_consumption(cart, Catalog, Recipes)
    IN
    /\ pc[p] = "idle"
    /\ Len(ui.cart[p]) < MaxCart
    /\ UNCHANGED recipe_docs
    /\ ui' = [ui EXCEPT !.cart[p] = cart,
                        !.seen[p] = inventory,
                        !.need[p] = need,
                        !.preview[p] = find_shortages(need, inventory),
                        !.did = @ \cup {"add"}]
    /\ UNCHANGED <<stock, inventory, sales, deliveries, inventory_log, pc,
                   local, ops, calls>>

\* cart.pop(i)
Pop(cart, i) == SubSeq(cart, 1, i - 1) \o SubSeq(cart, i + 1, Len(cart))

\* "Udalit" next to item i: cart.pop(i); st.experimental_rerun()
RemoveFromCart(p, i) ==
    /\ pc[p] = "idle"
    /\ i \in DOMAIN ui.cart[p]
    /\ UNCHANGED recipe_docs
    /\ ui' = Drawn(p, Pop(ui.cart[p], i), "remove")
    /\ UNCHANGED <<stock, inventory, sales, deliveries, inventory_log, pc,
                   local, ops, calls>>

\* "Ochistit korzinu": st.session_state.cart = []; st.experimental_rerun().
\* The button is drawn for a cart that is not empty.
ClearCart(p) ==
    /\ pc[p] = "idle"
    /\ ui.cart[p] # <<>>
    /\ UNCHANGED recipe_docs
    /\ ui' = Drawn(p, <<>>, "clear")
    /\ UNCHANGED <<stock, inventory, sales, deliveries, inventory_log, pc,
                   local, ops, calls>>

\* The page runs again for any other widget (a category, a product, a
\* volume): the cart is the same, the inventory is fetched again.
Redraw(p) ==
    /\ pc[p] = "idle"
    /\ ui.cart[p] # <<>>
    /\ UNCHANGED recipe_docs
    /\ ui' = Drawn(p, ui.cart[p], "redraw")
    /\ UNCHANGED <<stock, inventory, sales, deliveries, inventory_log, pc,
                   local, ops, calls>>

\* ------------------------------- app/services/sales.py: the need of a cart
\* compute_item_consumption(db, product_doc, volume_ml, addons): what one unit
\* of the item takes, the recipe scaled to the volume plus the add-ons.
compute_item_consumption(product_doc, volume_ml, addons) ==
    consumption_for_item(product_doc, volume_ml, addons, Recipes)

\* aggregate_consumption(item_consumptions): the key-wise sum of the maps.
RECURSIVE aggregate_consumption(_)
aggregate_consumption(item_consumptions) ==
    IF item_consumptions = <<>> THEN EmptyMap
    ELSE sum_maps(aggregate_consumption(
                      SubSeq(item_consumptions, 1,
                             Len(item_consumptions) - 1)),
                  item_consumptions[Len(item_consumptions)])

\* for it in cart: cons = compute_item_consumption(db, it["product_doc"],
\*     it["volume_ml"], it.get("addons", [])); item_consumptions.append(cons)
\* need = aggregate_consumption(item_consumptions)
\* The item's qty is not among the arguments.  The need is in ledger units
\* (the quantities of the CartItems are whole).
CartNeed(cart) ==
    LET item_consumptions ==
            [k \in DOMAIN cart |->
                compute_item_consumption(Catalog[cart[k].product_id],
                                         cart[k].volume_ml, cart[k].addons)]
        need == aggregate_consumption(item_consumptions)
    IN [i \in DOMAIN need |-> need[i].n \div need[i].d]

\* The history record of the call, with the cart it was given.
WithCart(cs, c, cart) ==
    [d \in DOMAIN cs |->
        IF cs[d].n = c THEN [cs[d] EXCEPT !.cart = cart] ELSE cs[d]]

\* The history record of the call, with the shortages the page showed when
\* the button was pressed.
WithShown(cs, c, shown) ==
    [d \in DOMAIN cs |->
        IF cs[d].n = c THEN [cs[d] EXCEPT !.shown = shown] ELSE cs[d]]

\* A variant of Buy that refuses the purchase when the page shows a
\* shortage, without asking the store.  PurchaseDecidedByCommitRead depends
\* on the difference.
BuyOnPreview(p) ==
    LET cart == ui.cart[p]
        need == CartNeed(cart)
        c == ops + 1
        begun == WithShown(WithCart(Begin(p, "check_and_commit_sale", "",
                                          need, -1), c, cart),
                           c, ui.preview[p])
    IN
    /\ pc[p] = "idle"
    /\ cart # <<>>
    /\ ops < MaxOps
    /\ ops' = c
    /\ UNCHANGED recipe_docs
    /\ ui' = ui
    /\ IF ui.preview[p] # {}
       THEN /\ UNCHANGED <<stock, inventory, sales, deliveries,
                           inventory_log>>
            /\ calls' = Done(begun, c, "shortage",
                             {s.ingredient_id : s \in ui.preview[p]})
            /\ Return(p, "none")
       ELSE TxBody(p, c, need, begun)

\* "Kupit": the cart goes to check_and_commit_sale, whatever the page shows.
Buy(p) ==
    LET cart == ui.cart[p]
        need == CartNeed(cart)
        c == ops + 1
    IN
    /\ pc[p] = "idle"
    /\ cart # <<>>
    /\ ops < MaxOps
    /\ ops' = c
    /\ UNCHANGED recipe_docs
    /\ ui' = ui
    /\ TxBody(p, c, need,
              WithShown(WithCart(Begin(p, "check_and_commit_sale", "",
                                       need, -1), c, cart),
                        c, ui.preview[p]))

\* ------------------------------------------------------------ specifications
\* A collection of ingredient documents: any subset of the ingredient ids,
\* each with a quantity that is not negative.
Ledgers == UNION {[D -> 0..MaxStock] : D \in SUBSET Ingredients}

\* The sales collection when the sessions open: empty, or holding the sale of
\* an espresso that sell_product wrote earlier.
EarlierSale ==
    [id |-> 0, kind |-> "ts", product_id |-> "espresso",
     items |-> RecipeDocs["espresso"], inventory_delta |-> EmptyMap]
InitSales == { <<>>, <<EarlierSale>> }

InitRest ==
    /\ sales \in InitSales
    /\ deliveries = <<>>
    /\ inventory_log = <<>>
    /\ pc = [p \in Procs |-> "idle"]
    /\ local = [p \in Procs |-> IdleLocal]
    /\ ops = 0
    /\ calls = <<>>
    /\ ui = IdleUi
    /\ recipe_docs = RecipeDocs

\* The counter: sessions selling and undoing, through either application.
\* One of the two ledgers is seeded (first-setup block or seed script).
Init ==
    /\ stock \in Ledgers
    /\ inventory \in Ledgers
    /\ stock = EmptyMap \/ inventory = EmptyMap
    /\ InitRest

Next ==
    \E p \in Procs :
        \/ \E pr \in Products : SellProduct(p, pr)
        \/ AdjRead(p)
        \/ AdjWrite(p)
        \/ SaleWrite(p)
        \/ UndoLastSale(p)
        \/ UndoDelete(p)
        \/ \E n \in NeedMaps : CheckAndCommitSale(p, n)
        \/ TxCommit(p)
        \/ TxRetry(p)
        \/ TxRead(p)

Spec == Init /\ [][Next]_vars

\* streamlit_app.py alone: every handler that writes the "ingredients" ledger.
InitLegacy ==
    /\ stock \in Ledgers
    /\ inventory = EmptyMap
    /\ InitRest

NextLegacy ==
    \E p \in Procs :
        \/ \E i \in Ingredients, d \in Deltas : AdjustStock(p, i, d)
        \/ \E pr \in Products : SellProduct(p, pr)
        \/ AdjRead(p)
        \/ AdjWrite(p)
        \/ SaleWrite(p)
        \/ UndoLastSale(p)
        \/ UndoDelete(p)
        \/ \E i \in Ingredients, q \in DeliveryQtys : RegisterDelivery(p, i, q)

SpecLegacy == InitLegacy /\ [][NextLegacy]_vars

\* streamlit_app.py with its recipe editor: products are sold and sales
\* undone while the recipe of the cappuccino is edited.
InitRecipe ==
    /\ stock \in [Ingredients -> {MaxStock - 1, MaxStock}]
    /\ inventory = EmptyMap
    /\ InitRest

NextRecipe ==
    \E p \in Procs :
        \/ \E pr \in Products : SellProduct(p, pr)
        \/ AdjRead(p)
        \/ AdjWrite(p)
        \/ SaleWrite(p)
        \/ UndoLastSale(p)
        \/ UndoDelete(p)
        \/ \E idx \in 1..2, q \in RecipeQtys :
              SaveRecipeRow(p, "cappuccino", idx, q)
        \/ \E idx \in 1..2 : DeleteRecipeRow(p, "cappuccino", idx)

SpecRecipe == InitRecipe /\ [][NextRecipe]_vars

\* The app/ package alone: every handler that writes the "inventory" ledger.
InitTx ==
    /\ stock = EmptyMap
    /\ inventory \in Ledgers
    /\ InitRest

NextTx ==
    \E p \in Procs :
        \/ \E n \in NeedMaps : CheckAndCommitSale(p, n)
        \/ TxCommit(p)
        \/ TxRetry(p)
        \/ TxRead(p)
        \/ \E i \in Ingredients, d \in Deltas : ManualAdjust(p, i, d)
        \/ MtxCommit(p)
        \/ MtxRetry(p)
        \/ MtxRead(p)

SpecTx == InitTx /\ [][NextTx]_vars

\* check_and_commit_sale alone, with the transaction runner of the store
\* client making progress: a started transaction function is run on, its
\* commit is attempted, and a refused commit is followed by the next run.
NextSale ==
    \E p \in Procs :
        \/ \E n \in NeedMaps : CheckAndCommitSale(p, n)
        \/ TxCommit(p)
        \/ TxRetry(p)
        \/ TxRead(p)

SpecSaleFair ==
    /\ InitTx
    /\ [][NextSale]_vars
    /\ \A p \in Procs :
          /\ WF_vars(TxCommit(p))
          /\ WF_vars(TxRetry(p))
          /\ WF_vars(TxRead(p))

\* -------------------------------------------------- requests that fail
\* A request of adjust_stock (the get or the update) raises inside
\* sell_product: adjust_stock returns str(e) and sell_product returns it.
\* Nothing is written by the failed request.
AdjFails(p) ==
    LET l == local[p] IN
    /\ pc[p] \in {"adj_read", "adj_write"}
    /\ l.op = "sell_product"
    /\ UNCHANGED <<stock, inventory, sales, deliveries, inventory_log, ops,
                   ui, recipe_docs>>
    /\ calls' = Done(calls, l.c, "store_error", {})
    /\ Return(p, "store_error")

\* The set() of the sale document raises: except Exception: return str(e).
SaleWriteFails(p) ==
    LET l == local[p] IN
    /\ pc[p] = "sale_write"
    /\ UNCHANGED <<stock, inventory, sales, deliveries, inventory_log, ops,
                   ui, recipe_docs>>
    /\ calls' = Done(calls, l.c, "store_error", {})
    /\ Return(p, "store_error")

\* A read or the commit of the transaction raises: the transaction is rolled
\* back, none of its writes is applied, the exception leaves
\* check_and_commit_sale.
TxFails(p) ==
    LET l == local[p] IN
    /\ pc[p] \in {"tx_read", "tx_commit"}
    /\ l.op = "check_and_commit_sale"
    /\ UNCHANGED <<stock, inventory, sales, deliveries, inventory_log, ops,
                   ui, recipe_docs>>
    /\ calls' = Done(calls, l.c, "store_error", {})
    /\ Return(p, "store_error")

\* Sales through either application over a store whose requests may fail.
NextFail ==
    \E p \in Procs :
        \/ \E pr \in Products : SellProduct(p, pr)
        \/ AdjRead(p)
        \/ AdjWrite(p)
        \/ SaleWrite(p)
        \/ AdjFails(p)
        \/ SaleWriteFails(p)
        \/ \E n \in NeedMaps : CheckAndCommitSale(p, n)
        \/ TxCommit(p)
        \/ TxRetry(p)
        \/ TxRead(p)
        \/ TxFails(p)

SpecFail == Init /\ [][NextFail]_vars

\* app/logic/calc.py alone: the sale screen resolving items of the catalog.
InitCalc ==
    /\ stock = EmptyMap
    /\ inventory = EmptyMap
    /\ sales = <<>>
    /\ deliveries = <<>>
    /\ inventory_log = <<>>
    /\ pc = [p \in Procs |-> "idle"]
    /\ local = [p \in Procs |-> IdleLocal]
    /\ ops = 0
    /\ calls = <<>>
    /\ ui = IdleUi
    /\ recipe_docs = RecipeDocs

NextCalc ==
    \E pr \in DOMAIN Catalog, v \in Volumes, ads \in AddonLists :
        ResolveItem(pr, v, ads)

SpecCalc == InitCalc /\ [][NextCalc]_vars

\* compute_base_consumption alone, on recipes with and without a usable base
\* volume.
NextScale ==
    \E recipe \in ScaledRecipes, v \in Volumes : ScaleRecipe(recipe, v)

SpecScale == InitCalc /\ [][NextScale]_vars

\* total_cart_consumption alone, on carts whose items share ingredients and
\* may name a product that is not in the catalogue.
NextAggregate == \E cart \in SumCarts : SumCart(cart)

SpecAggregate == InitCalc /\ [][NextAggregate]_vars

\* The shortage checks of calc.py and of sales.py alone, on the same inputs.
NextShort ==
    \E have \in CheckedHaves, req \in CheckedNeeds : CheckShortage(have, req)

SpecShort == InitCalc /\ [][NextShort]_vars

\* The sale screen of the app/ package: carts filled and bought against the
\* stocks of the worked example.
CartStocks ==
    { [i \in Ingredients |-> IF i = "beans" THEN 40 ELSE 310],
      [i \in Ingredients |-> IF i = "beans" THEN 20 ELSE 310],
      [i \in Ingredients |-> IF i = "beans" THEN 36 ELSE 300] }

InitCart ==
    /\ stock = EmptyMap
    /\ inventory \in CartStocks
    /\ sales = <<>>
    /\ deliveries = <<>>
    /\ inventory_log = <<>>
    /\ pc = [p \in Procs |-> "idle"]
    /\ local = [p \in Procs |-> IdleLocal]
    /\ ops = 0
    /\ calls = <<>>
    /\ ui = IdleUi
    /\ recipe_docs = RecipeDocs

NextCart ==
    \E p \in Procs :
        \/ \E item \in CartItems : AddToCart(p, item)
        \/ Buy(p)
        \/ TxCommit(p)
        \/ TxRetry(p)
        \/ TxRead(p)

SpecCart == InitCart /\ [][NextCart]_vars

\* The sale screen with every cart button: carts are filled, edited,
\* abandoned and bought.
ScreenStocks ==
    { [i \in Ingredients |-> IF i = "beans" THEN 36 ELSE 300],
      [i \in Ingredients |-> IF i = "beans" THEN 35 ELSE 300] }

InitScreen ==
    /\ stock = EmptyMap
    /\ inventory \in ScreenStocks
    /\ sales = <<>>
    /\ deliveries = <<>>
    /\ inventory_log = <<>>
    /\ pc = [p \in Procs |-> "idle"]
    /\ local = [p \in Procs |-> IdleLocal]
    /\ ops = 0
    /\ calls = <<>>
    /\ ui = IdleUi
    /\ recipe_docs = RecipeDocs

NextScreen ==
    \E p \in Procs :
        \/ \E item \in CartItems : AddToCart(p, item)
        \/ \E i \in 1..MaxCart : RemoveFromCart(p, i)
        \/ ClearCart(p)
        \/ Buy(p)
        \/ TxCommit(p)
        \/ TxRetry(p)
        \/ TxRead(p)

SpecScreen == InitScreen /\ [][NextScreen]_vars

\* The sale screen next to the inventory screen: the stock is corrected by
\* hand and sold by the other session between the preview of a cart and its
\* purchase.
NextPreview ==
    \E p \in Procs :
        \/ \E item \in CartItems : AddToCart(p, item)
        \/ Redraw(p)
        \/ Buy(p)
        \/ TxCommit(p)
        \/ TxRetry(p)
        \/ TxRead(p)
        \/ \E d \in Deltas : ManualAdjust(p, "beans", d)
        \/ MtxCommit(p)
        \/ MtxRetry(p)
        \/ MtxRead(p)

SpecPreview == InitScreen /\ [][NextPreview]_vars

\* ------------------------------------------------------------------- claims
\* Reading the history.
Recs == {calls[d] : d \in DOMAIN calls}
Sells == {"sell_product", "check_and_commit_sale"}
Committed(r) == r.done /\ r.res = "ok"
Rejected(r) == r.done /\ r.res # "ok"
\* No other call ran between the start and the end of call r.
Alone(r) == r.ov = {}
\* The ledger the handler of call r works on, in a snapshot.
LedgerOf(r, snap) ==
    IF r.op = "check_and_commit_sale" THEN snap.inventory ELSE snap.stock
\* The ingredients of which `need` asks more than the ledger holds.
Short(need, ledger) == {i \in DOMAIN need : need[i] > Have(ledger, i)}

\* C1: after any interleaving of sell and undoLastSale calls that starts from
\* non-negative stock, the quantity of every ingredient document, in either
\* ledger, is >= 0.
NonNegativeAfterSales ==
    /\ \A i \in DOMAIN stock : stock[i] >= 0
    /\ \A i \in DOMAIN inventory : inventory[i] >= 0

\* C1 witness: a sale was committed, an undo credited an ingredient back, and
\* an ingredient stands at exactly 0.
SoldAndUndoneAtZero ==
    \E a \in Recs, b \in Recs :
        /\ a.op \in Sells /\ Committed(a) /\ a.need # EmptyMap
        /\ b.op = "undo_last_sale" /\ b.done /\ b.applied > 0
        /\ \E i \in DOMAIN stock : stock[i] = 0

\* C2: a sell whose need exceeds the stock of some ingredient leaves the
\* ledger as it found it: every quantity and the sales collection are the same
\* after the call as before it (stated for a call no other call overlaps).
RejectedSellLeavesLedger ==
    \A r \in Recs :
        (/\ r.op \in Sells /\ r.done /\ Alone(r)
         /\ Short(r.need, LedgerOf(r, r.pre)) # {})
        => /\ r.post.stock = r.pre.stock
           /\ r.post.inventory = r.pre.inventory
           /\ r.post.sales = r.pre.sales

\* C3: of two sells that run concurrently from the same stock, each
\* satisfiable alone but together needing more of a shared ingredient than
\* there is, exactly one commits and the other is rejected.
OneOfTwoRacingSellsCommits ==
    \A a \in Recs, b \in Recs :
        (/\ a.n < b.n /\ a.op \in Sells /\ b.op = a.op
         /\ a.done /\ b.done
         /\ a.ov = {b.n} /\ b.ov = {a.n}
         /\ a.pre = b.pre
         /\ Short(a.need, LedgerOf(a, a.pre)) = {}
         /\ Short(b.need, LedgerOf(a, a.pre)) = {}
         /\ \E i \in DOMAIN a.need \cap DOMAIN b.need :
                a.need[i] + b.need[i] > Have(LedgerOf(a, a.pre), i))
        => \/ Committed(a) /\ Rejected(b)
           \/ Rejected(a) /\ Committed(b)

\* C4: in every state, intermediate ones included, the effect of a sale is all
\* or nothing: either every ingredient of its need is decremented and its
\* sale document exists, or nothing is decremented and no sale document exists
\* (stated for the latest call, while no other call overlaps it).
SaleIsAllOrNothing ==
    calls # <<>> =>
        LET r == calls[Len(calls)]
            before == LedgerOf(r, r.pre)
            now == LedgerOf(r, Snapshot)
        IN (r.op \in Sells /\ Alone(r)) =>
              \/ /\ now = before
                 /\ sales = r.pre.sales
              \/ /\ \A i \in DOMAIN now : now[i] = before[i] - Have(r.need, i)
                 /\ Len(sales) = Len(r.pre.sales) + 1
                 /\ sales[Len(sales)].id = r.n

\* C5: a rejected sell reports every ingredient of its need whose stock is
\* insufficient, not only the first one found.
RejectedSellListsEveryShortage ==
    \A r \in Recs :
        (/\ r.op \in Sells /\ r.done /\ Alone(r)
         /\ Short(r.need, LedgerOf(r, r.pre)) # {})
        => /\ Rejected(r)
           /\ Short(r.need, LedgerOf(r, r.pre)) \subseteq r.shortages

SaleDeltaIsMinusNeed ==
    [][\A p \in Procs :
          (pc[p] = "tx_commit" /\ pc'[p] = "idle") =>
             LET need == local[p].need
                 doc == sales'[Len(sales')]
             IN /\ Len(sales') = Len(sales) + 1
                /\ doc.id = local[p].c
                /\ DOMAIN doc.inventory_delta = DOMAIN need
                /\ \A i \in DOMAIN need : doc.inventory_delta[i] = 0 - need[i]
                /\ DOMAIN inventory' = DOMAIN inventory
                /\ \A i \in DOMAIN inventory :
                      inventory'[i] - inventory[i]
                         = Have(doc.inventory_delta, i)]_vars

\* C7 witness: a sale of two ingredients was committed while another
\* transaction on the same ledger ran.
SaleCommittedUnderContention ==
    \E r \in Recs :
        /\ r.op = "check_and_commit_sale" /\ Committed(r)
        /\ Cardinality(DOMAIN r.need) = 2
        /\ r.ov # {}
        /\ r.post.inventory # r.pre.inventory

\* C8: the quantity of every ingredient is >= 0 in every reachable state under
\* every handler that writes a ledger, manual adjustments with negative deltas
\* included.
QuantityNeverNegative ==
    \A ledger \in {stock, inventory} : \A i \in DOMAIN ledger : ledger[i] >= 0

\* C9, as claimed: adjust_stock rejects exactly when current + delta < 0 and
\* then changes nothing; otherwise it succeeds and the quantity becomes
\* current + delta.
AdjustRejectsExactlyBelowZero ==
    [][\A p \in Procs :
          (pc[p] = "adj_write" /\ pc'[p] # "adj_write") =>
             LET l == local[p]
                 new_val == l.cur + l.delta
             IN IF new_val < 0
                THEN local'[p].err # "none" /\ stock' = stock
                ELSE /\ local'[p].err = "none"
                     /\ l.ing \in DOMAIN stock'
                     /\ stock'[l.ing] = new_val]_vars

\* C9, amended: for an ingredient that has a document, adjust_stock rejects
\* exactly when current + delta < 0 (current being the value it read) and
\* otherwise, the boundary current + delta = 0 included, sets the quantity to
\* current + delta; for an ingredient without a document it also fails, with
\* the store's error, when current + delta >= 0.  A call that fails changes
\* no quantity.
AdjustRejectsBelowZeroOrMissing ==
    [][\A p \in Procs :
          (pc[p] = "adj_write" /\ pc'[p] # "adj_write") =>
             LET l == local[p]
                 new_val == l.cur + l.delta
             IN IF new_val < 0
                THEN local'[p].err = "negative" /\ stock' = stock
                ELSE IF l.ing \notin DOMAIN stock
                THEN local'[p].err = "not_found" /\ stock' = stock
                ELSE /\ local'[p].err = "none"
                     /\ stock' = [stock EXCEPT ![l.ing] = new_val]]_vars

\* C9 witness: a manual adjustment took an ingredient from 1 to exactly 0,
\* and a delivery for an ingredient without a document failed.
AdjustedToZeroAndMissing ==
    \E a \in Recs, b \in Recs :
        /\ a.op = "adjust_stock" /\ a.done /\ a.res = "none" /\ Alone(a)
        /\ \E i \in DOMAIN stock :
              a.pre.stock[i] = 1 /\ a.post.stock[i] = 0
        /\ b.op = "register_delivery" /\ b.done /\ b.res = "not_found"

\* C10: over any interleaving, two concurrent undo_last_sale calls included,
\* the consumption of a committed sale is credited back at most once.
SaleCreditedAtMostOnce ==
    \A a \in Recs, b \in Recs :
        (/\ a.n < b.n
         /\ a.op = "undo_last_sale" /\ b.op = "undo_last_sale"
         /\ a.target # NoSale.id /\ a.target = b.target)
        => ~(a.applied > 0 /\ b.applied > 0)

\* C11: undo_last_sale reverses the sale committed last among the sales on
\* record, whichever handler committed it: its target is the newest sale
\* document and that document is the one it removes (stated for an undo that
\* no other call overlaps).
UndoReversesLatestSale ==
    \A b \in Recs :
        (/\ b.op = "undo_last_sale" /\ b.done /\ Alone(b)
         /\ b.pre.sales # <<>>)
        => LET n == Len(b.pre.sales) IN
           /\ b.target = b.pre.sales[n].id
           /\ b.post.sales = SubSeq(b.pre.sales, 1, n - 1)

\* C12: with no sale on record, undo_last_sale reports that there is no sale
\* to undo and leaves every quantity and the sales collection as they were.
NoSaleToUndoChangesNothing ==
    \A r \in Recs :
        (/\ r.op = "undo_last_sale" /\ r.done /\ Alone(r)
         /\ r.pre.sales = <<>>)
        => /\ r.res = "no_sale"
           /\ r.post = r.pre

\* C12 witness: an undo found no sale while both ingredients were in stock.
UndoFoundNoSale ==
    \E r \in Recs :
        /\ r.op = "undo_last_sale" /\ r.done /\ Alone(r)
        /\ r.pre.sales = <<>> /\ r.res = "no_sale"
        /\ DOMAIN r.pre.stock = Ingredients
        /\ \A i \in Ingredients : r.pre.stock[i] > 0

\* Reading what the sale screen resolved.
HasRecipe(product_id) == RecipeKey(Catalog[product_id]) \in DOMAIN Recipes
Keys(a, b) == DOMAIN a.cons \cup DOMAIN b.cons

\* C13: for a product with a resolvable recipe and no add-ons, doubling the
\* volume doubles the required quantity of every recipe ingredient.
BaseScalesWithVolume ==
    \A a \in ui.resolved, b \in ui.resolved :
        (/\ a.product_id = b.product_id /\ HasRecipe(a.product_id)
         /\ a.addons = <<>> /\ b.addons = <<>>
         /\ b.volume_ml = 2 * a.volume_ml)
        => /\ DOMAIN b.cons = DOMAIN a.cons
           /\ \A i \in DOMAIN a.cons :
                 b.cons[i] = RatMul(RatOfInt(2), a.cons[i])

\* C13 witness: a cappuccino was resolved at 100 ml and at 200 ml without
\* add-ons, and the smaller cup needs beans and milk.
ResolvedAtVolumeAndDouble ==
    \E a \in ui.resolved, b \in ui.resolved :
        /\ a.product_id = "cappuccino" /\ b.product_id = "cappuccino"
        /\ a.addons = <<>> /\ b.addons = <<>>
        /\ a.volume_ml = 100 /\ b.volume_ml = 200
        /\ DOMAIN a.cons = {"beans", "milk"}
        /\ a.cons["beans"] = RatOfInt(9)

\* C14: the add-on part of an item's consumption does not depend on the
\* volume: for the same product and add-on selection, the difference between
\* the consumption with and without the add-ons is the same at any two
\* volumes, for every ingredient.
AddonPartIgnoresVolume ==
    \A a1 \in ui.resolved, a0 \in ui.resolved,
       b1 \in ui.resolved, b0 \in ui.resolved :
        (/\ {a0.product_id, b1.product_id, b0.product_id} = {a1.product_id}
         /\ a1.addons = b1.addons
         /\ a0.addons = <<>> /\ b0.addons = <<>>
         /\ a0.volume_ml = a1.volume_ml /\ b0.volume_ml = b1.volume_ml)
        => \A i \in Keys(a1, b1) :
              RatSub(Get(a1.cons, i), Get(a0.cons, i))
                 = RatSub(Get(b1.cons, i), Get(b0.cons, i))

\* C14 witness: a cappuccino with an extra shot and syrup was resolved at two
\* volumes, and so was the plain cappuccino; the shot adds beans to the
\* recipe's beans.
ResolvedWithAndWithoutAddons ==
    \E a1 \in ui.resolved, a0 \in ui.resolved,
       b1 \in ui.resolved, b0 \in ui.resolved :
        /\ {a1.product_id, a0.product_id, b1.product_id, b0.product_id}
              = {"cappuccino"}
        /\ a1.addons = <<"shot", "syrup">> /\ b1.addons = a1.addons
        /\ a0.addons = <<>> /\ b0.addons = <<>>
        /\ a0.volume_ml = a1.volume_ml /\ b0.volume_ml = b1.volume_ml
        /\ a1.volume_ml # b1.volume_ml
        /\ RatSub(a1.cons["beans"], a0.cons["beans"]) = RatOfInt(9)

\* C15: with the recipe of base volume 200 needing beans 18 and milk 150, a
\* cart of one 400 ml cup without add-ons needs beans 36 and milk 300; bought
\* against beans 40, milk 310 it commits and leaves beans 4, milk 10; bought
\* against beans 20, milk 310 it is rejected for beans, short by 16, and the
\* stock stays.
ExampleCart ==
    << [product_id |-> "cappuccino", volume_ml |-> 400, qty |-> 1,
        addons |-> <<>>] >>
ExampleStock(beans, milk) ==
    [i \in Ingredients |-> IF i = "beans" THEN beans ELSE milk]

WorkedExample ==
    /\ \A p \in Procs :
          ui.cart[p] = ExampleCart =>
             /\ ui.need[p] = [i \in Ingredients |->
                                RatOfInt(ExampleStock(36, 300)[i])]
             /\ ui.seen[p] = ExampleStock(40, 310) => ui.preview[p] = {}
             /\ ui.seen[p] = ExampleStock(20, 310) =>
                   ui.preview[p] =
                      {[ingredient_id |-> "beans", need |-> RatOfInt(36),
                        have |-> RatOfInt(20), deficit |-> RatOfInt(16)]}
    /\ \A r \in Recs :
          (r.op = "check_and_commit_sale" /\ r.cart = ExampleCart) =>
             /\ r.need = ExampleStock(36, 300)
             /\ (r.done /\ Alone(r)
                   /\ r.pre.inventory = ExampleStock(40, 310))
                => /\ Committed(r)
                   /\ r.post.inventory = ExampleStock(4, 10)
             /\ (r.done /\ Alone(r)
                   /\ r.pre.inventory = ExampleStock(20, 310))
                => /\ Rejected(r)
                   /\ r.shortages = {"beans"}
                   /\ r.need["beans"] - r.pre.inventory["beans"] = 16
                   /\ r.post.inventory = r.pre.inventory
                   /\ r.post.sales = r.pre.sales

\* C15 witness: the example cart was bought against beans 40, milk 310 and
\* the sale is on record.
ExampleBought ==
    \E r \in Recs :
        /\ r.op = "check_and_commit_sale" /\ r.cart = ExampleCart
        /\ Committed(r) /\ Alone(r)
        /\ r.pre.inventory = ExampleStock(40, 310)
        /\ Len(r.post.sales) = 1

\* C16: selling a product that has no recipe is not a failure: the sale is
\* accepted and recorded, and no ingredient is decremented.
NoRecipeSaleIsAccepted ==
    \A r \in Recs :
        (/\ r.op \in Sells /\ r.done /\ Alone(r)
         /\ r.need = EmptyMap
         /\ r.op = "sell_product" => r.product_id \notin DOMAIN RecipeDocs)
        => /\ Committed(r)
           /\ r.post.stock = r.pre.stock
           /\ r.post.inventory = r.pre.inventory
           /\ Len(r.post.sales) = Len(r.pre.sales) + 1

\* C17: every sell call returns, as its return value and never as a raised
\* exception, one of two structured results: committed, carrying the id of
\* the sale document it wrote, or rejected, carrying the shortage list.
SellReturnsStructuredResult ==
    \A r \in Recs :
        (r.op \in Sells /\ r.done) =>
           LET out == SellResult(r.op, r.res) IN
           /\ out.via = "return"
           /\ Committed(r) => "sale_id" \in out.carries
           /\ Rejected(r) => "shortages" \in out.carries

\* C18: a sale attempt of check_and_commit_sale moves only from Validating to
\* Committed or Rejected: it becomes Committed only out of Validating, by a
\* commit on a stock that shows no shortage for its need and that the commit
\* decrements by that need; a Committed or Rejected attempt keeps its state;
\* and the ledger and the sales collection are written only by the step that
\* ends a running attempt.
SaleAttemptStateMachine ==
    [][/\ \A r \in Recs :
             r.done => \A r2 \in {calls'[d] : d \in DOMAIN calls'} :
                          r2.n = r.n =>
                             r2.done /\ r2.res = r.res /\ r2.post = r.post
       /\ \A r2 \in {calls'[d] : d \in DOMAIN calls'} :
             (/\ r2.op = "check_and_commit_sale" /\ Committed(r2)
              /\ ~ \E r \in Recs : r.n = r2.n /\ r.done)
             => \E r \in Recs :
                   /\ r.n = r2.n /\ ~r.done
                   /\ Short(r.need, inventory) = {}
                   /\ DOMAIN r.need \subseteq DOMAIN inventory
                   /\ inventory' = [i \in DOMAIN inventory |->
                                       inventory[i] - Have(r.need, i)]
       /\ (inventory' # inventory \/ sales' # sales)
             => \E p \in Procs :
                   /\ pc[p] \in {"tx_commit", "mtx_commit"}
                   /\ pc'[p] = "idle"
                   /\ \A r \in Recs : r.n = local[p].c => ~r.done
      ]_vars

\* C18 witness: of two contending attempts one is Committed and the other,
\* validated again after the first commit, is Rejected.
CommittedAndRejectedAttempts ==
    \E a \in Recs, b \in Recs :
        /\ a.op = "check_and_commit_sale" /\ b.op = "check_and_commit_sale"
        /\ Committed(a) /\ Rejected(b)
        /\ a.pre = b.pre /\ a.need # EmptyMap
        /\ b.n \in a.ov
        /\ Short(b.need, b.pre.inventory) = {}

\* C19: under fair scheduling every sale attempt that is Validating reaches
\* Committed or Rejected, also when another sale contends for the same
\* ingredients.
SellAttemptTerminates ==
    \A p \in Procs : (pc[p] \in {"tx_commit", "tx_read"}) ~> (pc[p] = "idle")

\* C19 witness: an attempt that another sale overlapped, and whose first
\* commit was refused, has reached its final state.
ContendedAttemptEnded ==
    \E a \in Recs, b \in Recs :
        /\ a.op = "check_and_commit_sale" /\ b.op = "check_and_commit_sale"
        /\ a.done /\ b.done /\ a.n \in b.ov
        /\ Committed(a) /\ Rejected(b)
        /\ Short(b.need, b.pre.inventory) = {}
        /\ b.post.inventory # b.pre.inventory

\* C20: a sale whose requests to the store cannot complete leaves no partial
\* effect: the caller receives an error, no ingredient is decremented and no
\* sale document is written (stated for a call no other call overlaps).
FailedSaleLeavesNothing ==
    \A r \in Recs :
        (r.op \in Sells /\ r.done /\ Alone(r) /\ r.res = "store_error")
        => /\ r.post.stock = r.pre.stock
           /\ r.post.inventory = r.pre.inventory
           /\ r.post.sales = r.pre.sales

\* C21: building or abandoning a cart has no effect on the ledger: a step in
\* which a session at the page changes its cart (an item added, an item
\* removed, the cart cleared) leaves every ingredient quantity and the sales
\* collection unchanged, and the stock and the sales collection change only
\* in the step that commits a purchase.
CartEditsLeaveLedger ==
    [][/\ \A p \in Procs :
             (pc[p] = "idle" /\ ui'.cart[p] # ui.cart[p])
             => /\ stock' = stock
                /\ inventory' = inventory
                /\ sales' = sales
       /\ (stock' # stock \/ inventory' # inventory \/ sales' # sales)
             => \E p \in Procs : pc[p] = "tx_commit" /\ pc'[p] = "idle"
      ]_vars

\* C21 witness: carts were filled, an item was removed, a cart was cleared,
\* every cart is empty again and no purchase was ever started.
CartsFilledAndAbandoned ==
    /\ {"add", "remove", "clear"} \subseteq ui.did
    /\ \A p \in Procs : ui.cart[p] = <<>>
    /\ ops = 0
    /\ inventory \in ScreenStocks

\* Two sessions whose carts are the same are shown the same need, and the
\* same shortages when they fetched the same inventory; the shortages shown
\* quote the need and the fetched quantity.
SameCartSameNeed ==
    /\ \A p \in Procs, q \in Procs :
          (ui.cart[p] # <<>> /\ ui.cart[p] = ui.cart[q])
          => /\ ui.need[p] = ui.need[q]
             /\ ui.seen[p] = ui.seen[q] => ui.preview[p] = ui.preview[q]
    /\ \A p \in Procs :
          pc[p] = "idle" /\ ui.cart[p] # <<>>
          => \A s \in ui.preview[p] :
                /\ s.need = ui.need[p][s.ingredient_id]
                /\ s.have = RatOfInt(Have(ui.seen[p], s.ingredient_id))

\* A run of the page that draws the need and the shortages changes no
\* quantity and no sale document, and leaves the cart (the new item of the
\* add button apart).
DrawLeavesStore ==
    (ui' # ui /\ pc' = pc)
    => /\ stock' = stock
       /\ inventory' = inventory
       /\ sales' = sales
       /\ \A p \in Procs :
             \/ ui'.cart[p] = ui.cart[p]
             \/ \E item \in CartItems : ui'.cart[p] = Append(ui.cart[p], item)

QtyTimesUnit(item) ==
    LET unit == consumption_for_item(Catalog[item.product_id], item.volume_ml,
                                     item.addons, Recipes)
    IN [i \in DOMAIN unit |-> RatMul(RatOfInt(item.qty), unit[i])]
RECURSIVE SumOverCart(_)
SumOverCart(cart) ==
    IF cart = <<>> THEN EmptyMap
    ELSE LET rest == SumOverCart(Tail(cart))
             first == QtyTimesUnit(Head(cart))
         IN [i \in DOMAIN rest \cup DOMAIN first |->
               RatAdd(Get(rest, i), Get(first, i))]

\* C23: the aggregated need of a cart is, for every ingredient, the sum over
\* the cart items of item.qty times the item's per-unit consumption, both in
\* the preview of the sale page and in the need that the commit checks and
\* decrements.
NeedIsQtyTimesUnit ==
    /\ \A p \in Procs :
          (pc[p] = "idle" /\ ui.cart[p] # <<>>)
          => ui.need[p] = SumOverCart(ui.cart[p])
    /\ \A r \in Recs :
          (r.op = "check_and_commit_sale" /\ r.cart # <<>>)
          => /\ DOMAIN r.need = DOMAIN SumOverCart(r.cart)
             /\ \A i \in DOMAIN r.need :
                   RatOfInt(r.need[i]) = SumOverCart(r.cart)[i]
             /\ Committed(r) /\ Alone(r)
                => \A i \in DOMAIN r.need :
                      RatOfInt(r.pre.inventory[i] - r.post.inventory[i])
                         = SumOverCart(r.cart)[i]

\* C24: a sale whose need names an ingredient that has no document in the
\* store never commits: the call is rejected, no other ingredient is
\* decremented and no sale document is written (stated for a call no other
\* call overlaps).
UnknownIngredientAborts ==
    \A r \in Recs :
        (/\ r.op \in Sells /\ r.done /\ Alone(r)
         /\ ~(DOMAIN r.need \subseteq DOMAIN LedgerOf(r, r.pre)))
        => /\ Rejected(r)
           /\ r.post.stock = r.pre.stock
           /\ r.post.inventory = r.pre.inventory
           /\ r.post.sales = r.pre.sales

\* The sale document an undo call aims at, in the collection it found.
TargetOf(r) ==
    LET hits == {n \in DOMAIN r.pre.sales : r.pre.sales[n].id = r.target}
    IN r.pre.sales[CHOOSE n \in hits : TRUE]

\* C25: undo is one atomic unit: in no state are some but not all ingredients
\* of the undone sale credited back, or all of them credited back while the
\* sale document is still on record (stated for the latest call, an undo that
\* found a sale, while no other call overlaps it).
UndoIsAllOrNothing ==
    calls # <<>> =>
        LET r == calls[Len(calls)] IN
        (r.op = "undo_last_sale" /\ Alone(r) /\ r.target # NoSale.id) =>
           LET credit == RecipeNeed(TargetOf(r).items) IN
           \/ /\ stock = r.pre.stock
              /\ sales = r.pre.sales
           \/ /\ \A i \in DOMAIN stock :
                    stock[i] = r.pre.stock[i] + Have(credit, i)
              /\ sales = RemoveId(r.pre.sales, r.target)

\* C26: undo credits back the amounts recorded in the sale document at commit
\* time, not amounts taken from the recipe the product has now: the document
\* sell_product writes records the items it deducted, and an undo that no
\* other call overlaps adds exactly the recorded items of its target to the
\* ingredients, whatever the recipe has become.
UndoCreditsRecordedItems ==
    /\ \A a \in Recs :
          (a.op = "sell_product" /\ Committed(a) /\ Alone(a))
          => LET doc == a.post.sales[Len(a.post.sales)] IN
             /\ doc.id = a.n
             /\ RecipeNeed(doc.items) = a.need
             /\ \A i \in DOMAIN a.pre.stock :
                   a.pre.stock[i] - a.post.stock[i] = Have(a.need, i)
    /\ \A b \in Recs :
          (/\ b.op = "undo_last_sale" /\ b.done /\ Alone(b)
           /\ b.target # NoSale.id)
          => \A i \in DOMAIN b.pre.stock :
                b.post.stock[i] - b.pre.stock[i]
                   = Have(RecipeNeed(TargetOf(b).items), i)

\* C26 witness: a cappuccino was sold, its recipe was then edited, and the
\* next call undid the sale, crediting the two recorded items.
UndoneAfterRecipeEdit ==
    \E a \in Recs, b \in Recs :
        /\ a.op = "sell_product" /\ Committed(a) /\ Alone(a)
        /\ a.product_id = "cappuccino"
        /\ b.op = "undo_last_sale" /\ b.done /\ Alone(b)
        /\ b.target = a.n /\ b.applied = 2
        /\ RecipeNeed(get_recipe("cappuccino")) # a.need
        /\ b.post.stock = a.pre.stock

\* C27: the validation at commit records an ingredient as short exactly when
\* current + 1e-9 < required, each shortage carries the ingredient id, the
\* required and the available quantity and the deficit, and the preview and
\* the commit decide alike.
CommitShortageIsPreviewShortage ==
    \A c \in ui.checked :
        LET over == RatSub(c.need, RatOfInt(c.have))
            beyond == over.n > 0 /\ over.d \div over.n < 1000000000
        IN /\ (c.commit # {}) <=> beyond
           /\ (c.preview # {}) <=> (c.commit # {})
           /\ \A s \in c.commit :
                 /\ {"need", "have", "deficit"} \subseteq DOMAIN s
                 /\ s.deficit = over

\* C28: the outcome of a purchase depends only on the stock read inside the
\* commit, not on the inventory the preview was drawn from: a purchase that
\* no other call overlaps commits exactly when the stock at its start covers
\* its need, whatever shortages the page showed, and a rejected purchase
\* leaves the stock and the sales collection unchanged.
PurchaseDecidedByCommitRead ==
    \A r \in Recs :
        (/\ r.op = "check_and_commit_sale" /\ r.cart # <<>>
         /\ r.done /\ Alone(r))
        => /\ Committed(r) <=> Short(r.need, r.pre.inventory) = {}
           /\ Committed(r) =>
                 \A i \in DOMAIN r.pre.inventory :
                    r.post.inventory[i]
                       = r.pre.inventory[i] - Have(r.need, i)
           /\ Rejected(r) =>
                 /\ r.post.inventory = r.pre.inventory
                 /\ r.post.sales = r.pre.sales

\* C28 witness: a cart whose preview showed no shortage was bought after the
\* other session's sale took the stock, and was rejected with the stock
\* unchanged.
ClearPreviewThenRejected ==
    \E a \in Recs, b \in Recs :
        /\ a.op = "check_and_commit_sale" /\ Committed(a)
        /\ b.op = "check_and_commit_sale" /\ b.cart # <<>>
        /\ a.n < b.n /\ a.p # b.p
        /\ b.shown = {} /\ Rejected(b) /\ Alone(b)
        /\ b.post.inventory = b.pre.inventory

\* C29: ledger conservation: whenever no call is in flight, every ingredient
\* stands at its initial quantity plus the updates of the accepted
\* deliveries, manual adjustments, sales and undos; in particular none of two
\* updates that run concurrently on one ingredient is lost (stated after the
\* first two calls of the sessions).
LedgerConserved ==
    (/\ \A p \in Procs : pc[p] = "idle"
     /\ ops = 2 /\ Len(calls) = 2)
    => \A i \in DOMAIN stock :
          stock[i] = calls[1].pre.stock[i] + Have(calls[1].effect, i)
                        + Have(calls[2].effect, i)

\* The log documents of type "sale" that name a sale id.
SaleLogs(id) ==
    {k \in DOMAIN inventory_log :
        inventory_log[k].type = "sale" /\ inventory_log[k].sale_id = id}

\* C30: every sale committed by check_and_commit_sale has exactly one
\* inventory_log document of type "sale", present in every state in which the
\* sale document is, whose delta is the sale's inventory_delta and whose
\* sale_id is the sale's id; no log document of type "sale" names anything
\* but a sale on record, and a rejected sale has none.
CommittedSaleLoggedOnce ==
    /\ \A n \in DOMAIN sales :
          sales[n].kind = "created_at"
          => /\ Cardinality(SaleLogs(sales[n].id)) = 1
             /\ \A k \in SaleLogs(sales[n].id) :
                   inventory_log[k].delta = sales[n].inventory_delta
    /\ \A k \in DOMAIN inventory_log :
          inventory_log[k].type = "sale"
          => \E n \in DOMAIN sales :
                /\ sales[n].kind = "created_at"
                /\ sales[n].id = inventory_log[k].sale_id
    /\ \A r \in Recs :
          (r.op = "check_and_commit_sale" /\ ~Committed(r))
          => SaleLogs(r.n) = {}

\* C30 witness: of two sales one, needing two ingredients, was committed and
\* is logged once; the other was rejected and is not logged.
LoggedSaleAndUnloggedRejection ==
    \E a \in Recs, b \in Recs :
        /\ a.op = "check_and_commit_sale" /\ Committed(a)
        /\ b.op = "check_and_commit_sale" /\ Rejected(b)
        /\ Cardinality(DOMAIN a.need) = 2
        /\ Cardinality(SaleLogs(a.n)) = 1
        /\ SaleLogs(b.n) = {}
        /\ Len(inventory_log) = 1

\* The log documents of type "adjust".
AdjustLogs == {k \in DOMAIN inventory_log : inventory_log[k].type = "adjust"}

\* The manual adjustments on record that were applied.
AppliedAdjusts == {r \in Recs : r.op = "manual_adjust" /\ Committed(r)}

\* C31: each applied manual adjustment has exactly one inventory_log document
\* of type "adjust", and a retried transaction leaves no further one:
\* whenever no adjustment is running and every call is on record, there are
\* as many "adjust" documents as applied adjustments.
AdjustLoggedOncePerApplied ==
    (/\ \A p \in Procs : pc[p] = "idle"
     /\ Len(calls) = ops)
    => Cardinality(AdjustLogs) = Cardinality(AppliedAdjusts)

RECURSIVE DeliveredQty(_, _)
\* The quantity of ingredient i on the delivery documents docs.
DeliveredQty(docs, i) ==
    IF docs = <<>> THEN 0
    ELSE (IF Head(docs).ingredientId = i THEN Head(docs).qty ELSE 0)
         + DeliveredQty(Tail(docs), i)

RECURSIVE SumEffect(_, _)
\* What the calls rs added to the stock of ingredient i.
SumEffect(rs, i) ==
    IF rs = {} THEN 0
    ELSE LET r == CHOOSE x \in rs : TRUE
         IN Have(r.effect, i) + SumEffect(rs \ {r}, i)

\* C32: register_delivery records the delivery and increases the stock
\* together: once every call has returned (and is on record), the delivery
\* documents of an ingredient add up to what the register_delivery calls
\* added to its stock, so a delivery is on record if and only if the stock
\* was increased by its quantity.
DeliveryRecordedIffStocked ==
    (/\ \A p \in Procs : pc[p] = "idle"
     /\ Len(calls) = ops)
    => \A i \in Ingredients :
          DeliveredQty(deliveries, i)
             = SumEffect({r \in Recs : r.op = "register_delivery"}, i)

\* C33: the scale factor of a recipe is volume / divisor, where the divisor
\* is 200 for a recipe whose base volume is unset or zero and the base volume
\* itself when that is positive; the divisor is positive in every case, so
\* the factor is defined, and every quantity of the result is the recipe's
\* quantity times that factor.
ScaleDivisorIsPositive ==
    \A e \in ui.scaled :
        LET stored == IF "base_volume_ml" \in DOMAIN e.recipe
                      THEN e.recipe.base_volume_ml ELSE 0
            divisor == IF stored = 0 THEN 200 ELSE stored
        IN /\ e.base_ml = divisor
           /\ e.base_ml > 0
           /\ e.k.d > 0
           /\ e.k.n * divisor = e.volume_ml * e.k.d
           /\ \A j \in DOMAIN e.recipe.ingredients :
                 LET it == e.recipe.ingredients[j]
                     q == e.out[it.ingredient_id]
                 IN q.d > 0 /\ q.n * divisor = it.qty * e.volume_ml * q.d

\* C33 witness: one volume was scaled by a recipe without base volume, by
\* one with base volume zero and by one with base volume 100: the first two
\* gave the factor 400/200, the third 400/100.
ScaledUnsetZeroAndPositive ==
    \E a \in ui.scaled, b \in ui.scaled, c \in ui.scaled :
        /\ a.volume_ml = 400 /\ b.volume_ml = 400 /\ c.volume_ml = 400
        /\ "base_volume_ml" \notin DOMAIN a.recipe
        /\ "base_volume_ml" \in DOMAIN b.recipe /\ b.recipe.base_volume_ml = 0
        /\ "base_volume_ml" \in DOMAIN c.recipe
        /\ c.recipe.base_volume_ml = 100
        /\ a.k = RatOfInt(2) /\ b.k = RatOfInt(2) /\ c.k = RatOfInt(4)
        /\ c.out["beans"] = RatOfInt(72)

RECURSIVE SumOf(_)
\* The sum of the values of a function over a finite set.
SumOf(f) ==
    IF DOMAIN f = {} THEN RatOfInt(0)
    ELSE LET x == CHOOSE y \in DOMAIN f : TRUE
         IN RatAdd(f[x], SumOf([y \in DOMAIN f \ {x} |-> f[y]]))

\* Every contribution of a cart to ingredient i, one per recipe row and per
\* selected add-on that names i, of the items whose product is in the
\* catalogue: row quantity * volume / base volume * count, and add-on
\* quantity * count.
Contributions(cart, i) ==
    LET known == {k \in DOMAIN cart : cart[k].product_id \in DOMAIN SumCatalog}
        RecipeOf(k) == SumRecipes[RecipeKey(SumCatalog[cart[k].product_id])]
        AddonOf(k, a) ==
            CHOOSE ad \in AddonsWithId(SumCatalog[cart[k].product_id],
                                       cart[k].addons[a]) : TRUE
        Offered(k) ==
            {a \in DOMAIN cart[k].addons :
                AddonsWithId(SumCatalog[cart[k].product_id],
                             cart[k].addons[a]) # {}}
        rows == UNION {{<<k, "row", j>> :
                          j \in DOMAIN RecipeOf(k).ingredients} : k \in known}
        adds == UNION {{<<k, "addon", a>> : a \in Offered(k)} : k \in known}
        from == {c \in rows :
                    RecipeOf(c[1]).ingredients[c[3]].ingredient_id = i}
                \cup
                {c \in adds : i \in DOMAIN AddonOf(c[1], c[3]).ingredients}
    IN [c \in from |->
          IF c[2] = "row"
          THEN Rat(RecipeOf(c[1]).ingredients[c[3]].qty * cart[c[1]].volume_ml
                      * cart[c[1]].qty,
                   RecipeOf(c[1]).base_volume_ml)
          ELSE RatOfInt(AddonOf(c[1], c[3]).ingredients[i] * cart[c[1]].qty)]

\* C34: consumption maps are summed key-wise: the need of a cart has exactly
\* one entry for every ingredient that a recipe row or a selected add-on of
\* its items names, and the entry's value is the sum of all those
\* contributions, whether the id repeats inside one recipe, in a recipe and
\* an add-on, or across cart items.
RepeatedIdsAreSummed ==
    \A e \in ui.summed :
        /\ DOMAIN e.need
             = {i \in {"beans", "milk"} : DOMAIN Contributions(e.cart, i) # {}}
        /\ \A i \in DOMAIN e.need : e.need[i] = SumOf(Contributions(e.cart, i))

\* C34 witness: a cart of two items was summed in which beans are named six
\* times (twice by the recipe and once by the add-on of each item, two cups
\* each): beans = 2 * (2 * (36 + 4 + 9)), milk = 2 * (2 * 300).
SummedCartWithRepeatedIds ==
    \E e \in ui.summed :
        /\ Len(e.cart) = 2
        /\ e.cart[1].addons = <<"shot">> /\ e.cart[2].addons = <<"shot">>
        /\ Cardinality(DOMAIN Contributions(e.cart, "beans")) = 6
        /\ Cardinality(DOMAIN Contributions(e.cart, "milk")) = 2
        /\ e.need = [i \in {"beans", "milk"} |->
                        IF i = "beans" THEN RatOfInt(196) ELSE RatOfInt(1200)]

\* The selected add-on ids that the product defines, in the order selected.
DefinedAddons(product_id, addon_ids) ==
    LET Defined(id) ==
            \E j \in DOMAIN Catalog[product_id].addons :
                Catalog[product_id].addons[j].id = id
    IN SelectSeq(addon_ids, Defined)

\* C35: selected add-on ids that the product does not define are ignored:
\* an item resolved with the selection A has the consumption of the same
\* product and volume resolved with A less the undefined ids.
UnknownAddonsAreIgnored ==
    \A a \in ui.resolved, b \in ui.resolved :
        (/\ a.product_id = b.product_id
         /\ a.volume_ml = b.volume_ml
         /\ b.addons = DefinedAddons(a.product_id, a.addons))
        => a.cons = b.cons

\* C35 witness: tea, which offers the syrup only, was resolved with the shot
\* and the syrup selected and with the syrup alone; both take the syrup's 20.
ResolvedWithUnknownAddon ==
    \E a \in ui.resolved, b \in ui.resolved :
        /\ a.product_id = "tea" /\ b.product_id = "tea"
        /\ a.volume_ml = b.volume_ml
        /\ a.addons = <<"shot", "syrup">>
        /\ b.addons = <<"syrup">>
        /\ b.addons = DefinedAddons("tea", a.addons)
        /\ a.cons = [i \in {"syrup"} |-> RatOfInt(20)]
        /\ b.cons = a.cons

\* The cart without the items whose product is not in the catalogue.
CatalogueItems(cart) ==
    LET Listed(item) == item.product_id \in DOMAIN SumCatalog
    IN SelectSeq(cart, Listed)

\* C36: a cart item whose product is not in the catalogue is skipped: the
\* need of a cart is the need of the same cart without such items (and the
\* aggregation of a cart that holds one yields a need).
UnknownProductIsSkipped ==
    \A a \in ui.summed, b \in ui.summed :
        b.cart = CatalogueItems(a.cart) => a.need = b.need

\* C36 witness: a cart with a listed product and an unlisted one was summed,
\* and so was the cart of the listed product alone; both need what two
\* doppios of 400 ml with a shot take.
SummedWithAndWithoutUnknownProduct ==
    \E a \in ui.summed, b \in ui.summed :
        /\ Len(a.cart) = 2 /\ Len(b.cart) = 1
        /\ a.cart[1].product_id = "doppio"
        /\ a.cart[2].product_id = "ghost"
        /\ b.cart = CatalogueItems(a.cart)
        /\ a.need = [i \in {"beans", "milk"} |->
                        IF i = "beans" THEN RatOfInt(98) ELSE RatOfInt(600)]
        /\ b.need = a.need

====
